---- MODULE Spec2Model ----
(***************************************************************************)
(* A model of hvh::htable (htable.hpp), the open-addressing hash index     *)
(* built on hvh::soa (soa.hpp).                                            *)
(*                                                                         *)
(* The table is modelled for htable<KeyT, ItemT>: column 0 is the key,     *)
(* column 1 one payload item.  A row is a record [key, item]; the live     *)
(* rows are the sequence `rows` (row index i of the code is rows[i+1]).    *)
(* The slot array is a function from 0..n-1 to slot values, n being the    *)
(* number of slots that rehash's memset initialised when the array was     *)
(* allocated; the null pointer is the empty function.                      *)
(*                                                                         *)
(* Every operation of the class is a pure operator from a table record     *)
(*   [rows, mycapacity, hashcapacity, hashmap, hashcursor]                 *)
(* to an outcome [t, ret, st]: the table after the call, the value         *)
(* returned, and st = "ok" (the call returned), "hang" (a while(1) loop    *)
(* of the call never exits) or "ub" (the call read or wrote outside the    *)
(* slot array).  The actions apply these operators to the state.           *)
(***************************************************************************)
EXTENDS Integers, Sequences, FiniteSets, Bags, TLC

\* ---------------------------------------------------------------- bounds
\* The code rounds capacities to multiples of 16; the model scales this
\* quantum down so that growth and rehash happen within a few inserts.
Quantum == 2
\* Inserts are allowed while the table holds fewer than MaxRows rows.
MaxRows == 3
\* Keys are 0..NumKeys-1; the payload item of a row is in 0..MaxItem, or
\* the row's insertion ticket in the runs that tell rows of one key apart.
NumKeys == 2
MaxItem == 0
\* std::hash is any function.  The model draws it from the family
\* k |-> m*k, m in 0..MaxMult (m = 0: every key collides).  Probing is
\* invariant under a rotation of the slot numbers, so for two keys only the
\* distance m between their start slots matters.
MaxMult == 3
\* The runs that wear the index out with tombstones use ProbeKeys keys with
\* the hash k |-> ProbeMult*k and hold at most ProbeRows rows at a time.
ProbeKeys == 4
ProbeMult == 3
ProbeRows == 2
\* The insert-only runs: keys 0 .. InsKeys-1 and up to InsRows rows, enough
\* for the table to grow twice.
InsKeys == 3
InsRows == 5
\* The largest slot count of the probe-walk runs: 2 * 16 + 3, the slot count
\* of the smallest real table.
StrideMax == 35
\* The column store on its own: column values 0 .. SoaMaxVal, up to SoaRows
\* rows under all its operations, up to PushRows rows under push_back alone
\* (enough for three growths).
SoaMaxVal == 1
SoaRows == 3
PushRows == 5

\* Binary search and sort: columns of up to BoundRows rows with the values
\* 0 .. BoundMaxVal; sort<K> on every container of up to SortRows rows with
\* the values 0 .. SortMaxVal.
BoundRows == 4
BoundMaxVal == 2
SortRows == 5
SortMaxVal == 2

\* ------------------------------------------------------ program constants
\* UINT_MAX and SIZE_MAX, scaled to values TLC's integers hold.  Only their
\* being distinct from, and larger than, every row index and slot number
\* matters to the code modelled here.
UINT_MAX == 65535
SIZE_MAX == 2147483647

INDEXNUL == UINT_MAX
INDEXDEL == UINT_MAX - 1

Items == 0 .. MaxItem

VARIABLES
    rows,          \* the live rows, columns 0 (key) and 1 (item)
    mycapacity,    \* soa::mycapacity
    hashcapacity,  \* htable::hashcapacity
    hashmap,       \* htable::hashmap, the slot array
    hashcursor,    \* htable::hashcursor
    mydata,        \* _soa_base::mydata of columns 0 and 1, as byte offsets
    hashfn,        \* std::hash<KeyT>, fixed for a run
    op,            \* the last public call made
    ret,           \* what it returned
    status,        \* "ok", or "hang"/"ub" once a call did not return normally
    lastFind       \* outcome of the most recent find, kept across inserts

vars == <<rows, mycapacity, hashcapacity, hashmap, hashcursor, mydata, hashfn,
          op, ret, status, lastFind>>

\* The table record of the current state.
Tbl == [rows |-> rows, mycapacity |-> mycapacity, hashcapacity |-> hashcapacity,
        hashmap |-> hashmap, hashcursor |-> hashcursor, mydata |-> mydata]

\* hashmap == nullptr: a slot array with no slot.
NullMap == [h \in {} |-> INDEXNUL]

\* A null pointer; other pointers are byte offsets into the current block.
nullptr == 0 - 1

\* sizeof(int), the element size of either column.
sizeof_FT == 4

\* nullify(): mydata of every column is nullptr.
nullify == << nullptr, nullptr >>

\* The default-constructed table.
EmptyTable == [rows |-> << >>, mycapacity |-> 0, hashcapacity |-> 0,
               hashmap |-> NullMap, hashcursor |-> SIZE_MAX, mydata |-> nullify]

Outcome(t, r, s) == [t |-> t, ret |-> r, st |-> s]

mysize(t) == Len(t.rows)

\* at<0>(i): the key of row i.
At0(t, i) == t.rows[i + 1].key

\* at<1>(i): the payload of row i.
At1(t, i) == t.rows[i + 1].item

\* std::hash<KeyT>{}(key)
Hash(key) == hashfn[key]

\* The keys of a run: those its hash function is given for.
Keys == DOMAIN hashfn

\* Mutant of hash_inc: a stride of 3.
hash_inc_three(h, hc) == (h + 3) % hc

\* hash_inc: h = (h + 2) % hashcapacity
hash_inc(h, hc) == (h + 2) % hc

\* A slot number the slot array holds.
InMap(t, h) == h \in DOMAIN t.hashmap

\* The number of slots of the slot array.
MapLen(t) == Cardinality(DOMAIN t.hashmap)

\* _soa_aligned_malloc for hc + 1 slots, of which the table uses hc.  The
\* memory is uninitialised; every caller runs rehash, whose memset overwrites
\* all hc slots before any is read, so the content chosen here is never seen.
FreshMap(hc) == [h \in 0 .. (hc - 1) |-> INDEXDEL]

\* memset(hashmap, INDEXNUL, sizeof(uint32_t) * hashcapacity)
MemsetMap(t) == [h \in DOMAIN t.hashmap |->
                   IF h < t.hashcapacity THEN INDEXNUL ELSE t.hashmap[h]]

\* The while(1) loop of rehash for row i, started at slot h: the row index is
\* written to the first slot that is INDEXNUL or INDEXDEL.  The loop's only
\* state is h, so hc iterations without an exit mean it never exits.
RECURSIVE PlaceLoop(_, _, _, _, _)
PlaceLoop(map, hc, h, i, fuel) ==
    IF fuel = 0 THEN [map |-> map, st |-> "hang"]
    ELSE IF h \notin DOMAIN map THEN [map |-> map, st |-> "ub"]
    ELSE IF map[h] = INDEXNUL \/ map[h] = INDEXDEL
         THEN [map |-> [map EXCEPT ![h] = i], st |-> "ok"]
    ELSE PlaceLoop(map, hc, hash_inc(h, hc), i, fuel - 1)

\* Mutant of RehashRows: the rows are placed from the last to the first.
RECURSIVE RehashRowsReversed(_, _, _, _)
RehashRowsReversed(map, hc, rws, i) ==
    IF i >= Len(rws) THEN [map |-> map, st |-> "ok"]
    ELSE IF hc = 0 THEN [map |-> map, st |-> "ub"]
    ELSE LET r == RehashRowsReversed(map, hc, rws, i + 1)
         IN  IF r.st # "ok" THEN r
             ELSE PlaceLoop(r.map, hc, Hash(rws[i + 1].key) % hc, i, hc)

\* The for loop of rehash from row i on, in row order.
RECURSIVE RehashRows(_, _, _, _)
RehashRows(map, hc, rws, i) ==
    IF i >= Len(rws) THEN [map |-> map, st |-> "ok"]
    ELSE IF hc = 0 THEN [map |-> map, st |-> "ub"]
    ELSE LET p == PlaceLoop(map, hc, Hash(rws[i + 1].key) % hc, i, hc)
         IN  IF p.st # "ok" THEN p ELSE RehashRows(p.map, hc, rws, i + 1)

\* rehash()
rehash(t) ==
    IF t.hashcapacity > MapLen(t) THEN Outcome(t, TRUE, "ub")
    ELSE LET r == RehashRows(MemsetMap(t), t.hashcapacity, t.rows, 0)
         IN  Outcome([t EXCEPT !.hashmap = r.map, !.hashcursor = SIZE_MAX],
                     TRUE, r.st)

\* newsize rounded up to a multiple of the quantum.
RoundUp(newsize) ==
    IF newsize % Quantum # 0 THEN newsize + (Quantum - (newsize % Quantum))
    ELSE newsize

\* The row capacity reserve(n) asks for: n rounded up, at least one quantum.
ReserveSize(n) == IF RoundUp(n) = 0 THEN Quantum ELSE RoundUp(n)

\* Hash capacity for a row capacity: newsize + newsize + 4, then --.
HashCapFor(newsize) == (newsize + newsize + 4) - 1

\* Mutant of divy_buffer_mydata: column 1 starts newcap bytes, not newcap
\* elements, behind column 0.
divy_buffer_mydata_bytes(newmem, newcap) == << newmem, newmem + newcap >>

\* divy_buffer, the pointers: column 0 starts at newmem and the next column
\* at ((FT*)newmem) + mycapacity, mycapacity being the new capacity already.
divy_buffer_mydata(newmem, newcap) == << newmem, newmem + sizeof_FT * newcap >>

\* htable_size: the bytes of the slot array, which leads the table's block.
htable_size(newsize) == (newsize + newsize + 4) * 4

\* Mutant of divy_buffer: the old rows are not copied to the new block.
divy_buffer_nocopy(rws, newcap) == << >>

\* divy_buffer: the columns move to the new block, memcpy copying
\* min(mysize, mycapacity) rows, mycapacity being the new capacity already.
divy_buffer(rws, newcap) ==
    SubSeq(rws, 1, IF Len(rws) < newcap THEN Len(rws) ELSE newcap)

\* reserve(n); allocOk says whether _soa_aligned_malloc succeeds.
reserve(t, n, allocOk) ==
    LET newsize == ReserveSize(n)
        hc == HashCapFor(newsize)
    IN  IF newsize <= t.mycapacity THEN Outcome(t, TRUE, "ok")
        ELSE IF ~allocOk
             THEN Outcome([t EXCEPT !.hashcapacity = hc], FALSE, "ok")
        ELSE rehash([t EXCEPT !.hashcapacity = hc,
                              !.hashmap = FreshMap(hc),
                              !.mycapacity = newsize,
                              !.mydata = divy_buffer_mydata(htable_size(newsize),
                                                            newsize),
                              !.rows = divy_buffer(t.rows, newsize)])

\* shrink_to_fit()
shrink_to_fit(t, allocOk) ==
    LET newsize == RoundUp(mysize(t))
        hc == HashCapFor(newsize)
    IN  IF newsize = t.mycapacity THEN Outcome(t, TRUE, "ok")
        ELSE IF newsize > 0
             THEN IF ~allocOk
                  THEN Outcome([t EXCEPT !.hashcapacity = hc], FALSE, "ok")
                  ELSE rehash([t EXCEPT !.hashcapacity = hc,
                                        !.hashmap = FreshMap(hc),
                                        !.mycapacity = newsize,
                                        !.mydata = divy_buffer_mydata(
                                                       htable_size(newsize), newsize),
                                        !.rows = divy_buffer(t.rows, newsize)])
        ELSE rehash([t EXCEPT !.mycapacity = 0, !.hashcapacity = 0,
                              !.hashmap = NullMap, !.mydata = nullify])

\* max_size()
max_size == UINT_MAX - 2

\* The while(1) loop of insert from slot h: push_back the row and write its
\* index (the old size) to the first INDEXNUL or INDEXDEL slot.
RECURSIVE InsertLoop(_, _, _, _)
InsertLoop(t, h, row, fuel) ==
    IF fuel = 0 THEN Outcome(t, TRUE, "hang")
    ELSE IF ~InMap(t, h) THEN Outcome(t, TRUE, "ub")
    ELSE IF t.hashmap[h] = INDEXNUL \/ t.hashmap[h] = INDEXDEL
         THEN Outcome([t EXCEPT !.rows = Append(t.rows, row),
                                !.hashmap[h] = mysize(t)], TRUE, "ok")
    ELSE InsertLoop(t, hash_inc(h, t.hashcapacity), row, fuel - 1)

\* insert(key, item)
insert(t, key, item, allocOk) ==
    IF mysize(t) = max_size THEN Outcome(t, FALSE, "ok")
    ELSE LET g == IF mysize(t) = t.mycapacity
                  THEN reserve(t, t.mycapacity * 2, allocOk)
                  ELSE Outcome(t, TRUE, "ok")
         IN  IF g.st # "ok" THEN g
             ELSE IF ~g.ret THEN Outcome(g.t, FALSE, "ok")
             ELSE IF g.t.hashcapacity = 0 THEN Outcome(g.t, TRUE, "ub")
             ELSE InsertLoop(g.t, Hash(key) % g.t.hashcapacity,
                             [key |-> key, item |-> item], g.t.hashcapacity)

\* The while(1) loop of find: the cursor advances until it meets INDEXNUL
\* (not found) or an occupied slot whose row has the key.
RECURSIVE FindLoop(_, _, _)
FindLoop(t, key, fuel) ==
    IF fuel = 0 THEN Outcome(t, SIZE_MAX, "hang")
    ELSE IF ~InMap(t, t.hashcursor) THEN Outcome(t, SIZE_MAX, "ub")
    ELSE LET index == t.hashmap[t.hashcursor]
         IN  IF index = INDEXNUL THEN Outcome(t, SIZE_MAX, "ok")
             ELSE IF index # INDEXDEL /\ index >= mysize(t)
                  THEN Outcome(t, SIZE_MAX, "ub")
             ELSE IF index # INDEXDEL /\ At0(t, index) = key
                  THEN Outcome(t, index, "ok")
             ELSE FindLoop([t EXCEPT !.hashcursor =
                                hash_inc(t.hashcursor, t.hashcapacity)],
                           key, fuel - 1)

\* find(key, restart)
find(t, key, restart) ==
    IF mysize(t) = 0 THEN Outcome(t, SIZE_MAX, "ok")
    ELSE IF restart
         THEN IF t.hashcapacity = 0 THEN Outcome(t, SIZE_MAX, "ub")
              ELSE FindLoop([t EXCEPT !.hashcursor = Hash(key) % t.hashcapacity],
                            key, t.hashcapacity)
    ELSE IF t.hashcursor >= t.hashcapacity THEN Outcome(t, SIZE_MAX, "ok")
    ELSE FindLoop([t EXCEPT !.hashcursor = hash_inc(t.hashcursor, t.hashcapacity)],
                  key, t.hashcapacity)

\* _soa_base::erase_swap and soa::erase_swap: row `where` takes the last
\* row's content and the last row is destructed; no effect if where >= size.
erase_swap(rws, where) ==
    IF where >= Len(rws) THEN rws
    ELSE SubSeq([rws EXCEPT ![where + 1] = rws[Len(rws)]], 1, Len(rws) - 1)

\* _soa_base::erase_shift and soa::erase_shift: row `where` is destructed and
\* the rows after it move one index down; no effect if where >= size.
erase_shift(rws, where) ==
    IF where >= Len(rws) THEN rws
    ELSE SubSeq(rws, 1, where) \o SubSeq(rws, where + 2, Len(rws))

\* _soa_base::erase_shift moves size - location elements from slot
\* location + 1 on, so it reads the slots up to index size itself: with size
\* equal to capacity that slot lies past the sub-array of each column, and
\* for the last column past the end of the block.
ShiftOverreads(t) == mysize(t) >= t.mycapacity

\* Mutant of RepairLoop: the slot of the moved row is never repaired.
RepairLoopNoRepair(t, h, index, fuel) == Outcome(t, 1, "ok")

\* The repair loop of erase_found from slot h: the slot that holds the old
\* index of the moved row (the new size) is set to `index`; INDEXNUL ends
\* the search without a repair.
RECURSIVE RepairLoop(_, _, _, _)
RepairLoop(t, h, index, fuel) ==
    IF fuel = 0 THEN Outcome(t, 1, "hang")
    ELSE IF ~InMap(t, h) THEN Outcome(t, 1, "ub")
    ELSE IF t.hashmap[h] = mysize(t)
         THEN Outcome([t EXCEPT !.hashmap[h] = index], 1, "ok")
    ELSE IF t.hashmap[h] = INDEXNUL THEN Outcome(t, 1, "ok")
    ELSE RepairLoop(t, hash_inc(h, t.hashcapacity), index, fuel - 1)

\* Mutant of erase_found: the slot of the erased row is not set to INDEXDEL.
erase_found_keeps_slot(t, stale) ==
    IF t.hashcursor >= t.hashcapacity THEN Outcome(t, 0, "ok")
    ELSE IF ~InMap(t, t.hashcursor) THEN Outcome(t, 0, "ub")
    ELSE LET index == t.hashmap[t.hashcursor]
         IN  IF index = INDEXNUL \/ index = INDEXDEL THEN Outcome(t, 0, "ok")
             ELSE IF index >= mysize(t) THEN Outcome(t, 0, "ub")
             ELSE Outcome([t EXCEPT !.rows = erase_swap(t.rows, index)], 1, "ok")

\* erase_found().  After erase_swap the code reads at<0>(index); when the
\* erased row was the last one that row is destructed, and the key read is
\* `stale`, whatever the freed storage yields.
erase_found(t, stale) ==
    IF t.hashcursor >= t.hashcapacity THEN Outcome(t, 0, "ok")
    ELSE IF ~InMap(t, t.hashcursor) THEN Outcome(t, 0, "ub")
    ELSE LET index == t.hashmap[t.hashcursor]
         IN  IF index = INDEXNUL \/ index = INDEXDEL THEN Outcome(t, 0, "ok")
             ELSE LET t1 == [t EXCEPT !.rows = erase_swap(t.rows, index),
                                      !.hashmap[t.hashcursor] = INDEXDEL]
                      key == IF index < mysize(t1) THEN At0(t1, index) ELSE stale
                  IN  IF index > mysize(t1) THEN Outcome(t1, 1, "ub")
                      ELSE RepairLoop(t1, Hash(key) % t1.hashcapacity, index,
                                      t1.hashcapacity)

\* erase(key)
erase(t, key, stale) ==
    LET f == find(t, key, TRUE)
    IN  IF f.st # "ok" THEN Outcome(f.t, 0, f.st) ELSE erase_found(f.t, stale)

\* The for loop of erase_all once find has returned f: erase_found, then
\* find(key, false), until find returns SIZE_MAX.  Every pass erases a row,
\* so a pass with no row left to erase means the loop never exits.
RECURSIVE EraseAllLoop(_, _, _, _, _)
EraseAllLoop(f, key, stale, result, fuel) ==
    IF f.st # "ok" THEN Outcome(f.t, result, f.st)
    ELSE IF f.ret = SIZE_MAX THEN Outcome(f.t, result, "ok")
    ELSE IF fuel = 0 THEN Outcome(f.t, result, "hang")
    ELSE LET e == erase_found(f.t, stale)
         IN  IF e.st # "ok" THEN Outcome(e.t, result + e.ret, e.st)
             ELSE EraseAllLoop(find(e.t, key, FALSE), key, stale,
                               result + e.ret, fuel - 1)

\* erase_all(key)
erase_all(t, key, stale) ==
    EraseAllLoop(find(t, key, TRUE), key, stale, 0, mysize(t))

\* erase_found_sorted(); `fault` says whether a read past the end of the
\* block faults.
erase_found_sorted(t, fault) ==
    IF t.hashcursor >= t.hashcapacity THEN Outcome(t, 0, "ok")
    ELSE IF ~InMap(t, t.hashcursor) THEN Outcome(t, 0, "ub")
    ELSE LET index == t.hashmap[t.hashcursor]
         IN  IF index = INDEXNUL \/ index = INDEXDEL THEN Outcome(t, 0, "ok")
             ELSE IF ShiftOverreads(t) /\ fault THEN Outcome(t, 0, "ub")
             ELSE LET r == rehash([t EXCEPT !.rows = erase_shift(t.rows, index),
                                            !.hashmap[t.hashcursor] = INDEXDEL])
                  IN  Outcome(r.t, 1, r.st)

\* erase_sorted(key)
erase_sorted(t, key, fault) ==
    LET f == find(t, key, TRUE)
    IN  IF f.st # "ok" THEN Outcome(f.t, 0, f.st)
        ELSE erase_found_sorted(f.t, fault)

\* find(key, restart, hashc) const: find with the caller's cursor hashc in
\* place of hashcursor, which it leaves alone.
find_ext(t, key, restart, hashc) ==
    LET f == find([t EXCEPT !.hashcursor = hashc], key, restart)
    IN  [ret |-> f.ret, hashc |-> f.t.hashcursor, st |-> f.st]

\* The for loop of count once find has returned f.  Each pass counts one
\* match; `fuel` passes without SIZE_MAX mean the cursor is going round.
RECURSIVE CountLoop(_, _, _, _, _)
CountLoop(t, f, key, result, fuel) ==
    IF f.st # "ok" THEN Outcome(t, result, f.st)
    ELSE IF f.ret = SIZE_MAX THEN Outcome(t, result, "ok")
    ELSE IF fuel = 0 THEN Outcome(t, result, "hang")
    ELSE CountLoop(t, find_ext(t, key, FALSE, f.hashc), key, result + 1, fuel - 1)

\* count(key)
count(t, key) ==
    CountLoop(t, find_ext(t, key, TRUE, SIZE_MAX), key, 0, t.hashcapacity + 1)

\* _soa_base::swap_entries: rows first and second exchange their content.
base_swap_entries(rws, first, second) ==
    [rws EXCEPT ![first + 1] = rws[second + 1], ![second + 1] = rws[first + 1]]

\* soa::swap_entries: no effect unless both indices are below size.
soa_swap_entries(rws, first, second) ==
    IF first >= Len(rws) \/ second >= Len(rws) THEN rws
    ELSE base_swap_entries(rws, first, second)

\* A search loop of swap_entries from slot h for the slot that holds `index`:
\* its position, or SIZE_MAX when an INDEXNUL slot comes first.
RECURSIVE HashposLoop(_, _, _, _)
HashposLoop(t, h, index, fuel) ==
    IF fuel = 0 THEN [pos |-> SIZE_MAX, st |-> "hang"]
    ELSE IF ~InMap(t, h) THEN [pos |-> SIZE_MAX, st |-> "ub"]
    ELSE IF t.hashmap[h] = index THEN [pos |-> h, st |-> "ok"]
    ELSE IF t.hashmap[h] = INDEXNUL THEN [pos |-> SIZE_MAX, st |-> "ok"]
    ELSE HashposLoop(t, hash_inc(h, t.hashcapacity), index, fuel - 1)

\* htable::swap_entries(first, second).  at<0> of an index that is no row
\* and a write to a slot outside the slot array are undefined behaviour.
swap_entries(t, first, second) ==
    LET t1 == [t EXCEPT !.rows = soa_swap_entries(t.rows, first, second)]
    IN  IF first >= mysize(t1) \/ second >= mysize(t1) \/ t1.hashcapacity = 0
        THEN Outcome(t1, 0, "ub")
        ELSE LET p1 == HashposLoop(t1, Hash(At0(t1, first)) % t1.hashcapacity,
                                   first, t1.hashcapacity)
                 p2 == HashposLoop(t1, Hash(At0(t1, second)) % t1.hashcapacity,
                                   second, t1.hashcapacity)
             IN  IF p1.st # "ok" THEN Outcome(t1, 0, p1.st)
                 ELSE IF p2.st # "ok" THEN Outcome(t1, 0, p2.st)
                 ELSE IF ~InMap(t1, p1.pos) \/ ~InMap(t1, p2.pos)
                      THEN Outcome(t1, 0, "ub")
                 ELSE LET m1 == [t1.hashmap EXCEPT ![p1.pos] = second]
                      IN  Outcome([t1 EXCEPT !.hashmap =
                                      [m1 EXCEPT ![p2.pos] = first]], 0, "ok")

\* ------------------------------------------------------- the column store
\* soa<int, int>: the two columns of a row are its fields key and item.
\* size_per_entry(): the bytes of one row.
size_per_entry == 8

\* The rows a caller may pass.
SoaRowVals == [key : 0 .. SoaMaxVal, item : 0 .. SoaMaxVal]

\* A row of value-initialised columns, as construct_range(begin, end) makes.
DefaultRow == [key |-> 0, item |-> 0]

\* size exceeds capacity: rows size-1 and below reach past the columns'
\* sub-arrays, and any access to them is undefined behaviour.
Overfull(t) == mysize(t) > t.mycapacity

\* The rows after the columns moved to a block of newcap rows.  divy_buffer
\* copies min(size, new capacity) rows out of the old block, which holds only
\* the old capacity; with no old block (capacity 0) it copies nothing, and
\* size stays what it was.
Moved(t, newcap) ==
    IF Overfull(t) THEN t.rows ELSE divy_buffer(t.rows, newcap)

\* soa::reserve(n)
soa_reserve(t, n, allocOk) ==
    LET newsize == ReserveSize(n)
    IN  IF newsize <= t.mycapacity THEN Outcome(t, TRUE, "ok")
        ELSE IF ~allocOk THEN Outcome(t, FALSE, "ok")
        ELSE IF Overfull(t) /\ t.mycapacity > 0
             THEN Outcome([t EXCEPT !.mycapacity = newsize,
                                    !.mydata = divy_buffer_mydata(0, newsize)],
                          TRUE, "ub")
        ELSE Outcome([t EXCEPT !.mycapacity = newsize,
                               !.mydata = divy_buffer_mydata(0, newsize),
                               !.rows = Moved(t, newsize)], TRUE, "ok")

\* soa::shrink_to_fit()
soa_shrink_to_fit(t, allocOk) ==
    LET newsize == RoundUp(mysize(t))
    IN  IF newsize = t.mycapacity THEN Outcome(t, TRUE, "ok")
        ELSE IF newsize > 0
             THEN IF ~allocOk THEN Outcome(t, FALSE, "ok")
                  ELSE IF Overfull(t) /\ t.mycapacity > 0
                       THEN Outcome([t EXCEPT !.mycapacity = newsize,
                                              !.mydata = divy_buffer_mydata(0, newsize)],
                                    TRUE, "ub")
                  ELSE Outcome([t EXCEPT !.mycapacity = newsize,
                                         !.mydata = divy_buffer_mydata(0, newsize),
                                         !.rows = Moved(t, newsize)],
                               TRUE, "ok")
        ELSE Outcome([t EXCEPT !.mycapacity = 0, !.mydata = nullify], TRUE, "ok")

\* The growth step of resize, push_back and insert: reserve(n) when `grow`.
GrowIf(t, grow, n, allocOk) ==
    IF grow THEN soa_reserve(t, n, allocOk) ELSE Outcome(t, TRUE, "ok")

\* soa::resize(n): new rows are default-constructed.
soa_resize(t, n, allocOk) ==
    IF n > mysize(t)
    THEN LET g == GrowIf(t, n > t.mycapacity, n, allocOk)
         IN  IF g.st # "ok" THEN g
             ELSE IF ~g.ret THEN Outcome(g.t, FALSE, "ok")
             ELSE Outcome([g.t EXCEPT !.rows =
                              g.t.rows \o [i \in 1 .. (n - mysize(t)) |-> DefaultRow]],
                          TRUE, "ok")
    ELSE IF n < mysize(t)
         THEN IF Overfull(t) THEN Outcome(t, TRUE, "ub")
              ELSE Outcome([t EXCEPT !.rows = SubSeq(t.rows, 1, n)], TRUE, "ok")
    ELSE Outcome(t, TRUE, "ok")

\* soa::resize(n, initvals...): the growing branch constructs the rows
\* [size, n) and leaves mysize as it was.
soa_resize_fill(t, n, fill, allocOk) ==
    IF n > mysize(t)
    THEN LET g == GrowIf(t, n > t.mycapacity, n, allocOk)
         IN  IF g.st # "ok" THEN g
             ELSE IF ~g.ret THEN Outcome(g.t, FALSE, "ok")
             ELSE Outcome(g.t, TRUE, "ok")
    ELSE IF n < mysize(t)
         THEN IF Overfull(t) THEN Outcome(t, TRUE, "ub")
              ELSE Outcome([t EXCEPT !.rows = SubSeq(t.rows, 1, n)], TRUE, "ok")
    ELSE Outcome(t, TRUE, "ok")

\* soa::push_back(args...)
soa_push_back(t, row, allocOk) ==
    LET g == GrowIf(t, mysize(t) = t.mycapacity, t.mycapacity * 2, allocOk)
    IN  IF g.st # "ok" THEN g
        ELSE IF ~g.ret THEN Outcome(g.t, FALSE, "ok")
        ELSE IF mysize(g.t) >= g.t.mycapacity THEN Outcome(g.t, TRUE, "ub")
        ELSE Outcome([g.t EXCEPT !.rows = Append(g.t.rows, row)], TRUE, "ok")

\* _soa_base::insert: the rows from `location` on move one index up and the
\* new row is constructed at `location`.
base_insert(rws, location, row) ==
    SubSeq(rws, 1, location) \o << row >> \o SubSeq(rws, location + 1, Len(rws))

\* soa::insert(where, args...): the growth check comes before the bounds
\* check.
soa_insert(t, where, row, allocOk) ==
    LET g == GrowIf(t, mysize(t) = t.mycapacity, t.mycapacity * 2, allocOk)
    IN  IF g.st # "ok" THEN g
        ELSE IF ~g.ret THEN Outcome(g.t, FALSE, "ok")
        ELSE IF where > mysize(g.t) THEN Outcome(g.t, FALSE, "ok")
        ELSE IF mysize(g.t) >= g.t.mycapacity THEN Outcome(g.t, TRUE, "ub")
        ELSE Outcome([g.t EXCEPT !.rows = base_insert(g.t.rows, where, row)],
                     TRUE, "ok")

\* soa::pop_back()
soa_pop_back(t) ==
    IF mysize(t) = 0 THEN Outcome(t, 0, "ok")
    ELSE IF Overfull(t) THEN Outcome(t, 0, "ub")
    ELSE Outcome([t EXCEPT !.rows = SubSeq(t.rows, 1, mysize(t) - 1)], 0, "ok")

\* soa::erase_swap(where)
soa_erase_swap(t, where) ==
    IF where >= mysize(t) THEN Outcome(t, 0, "ok")
    ELSE IF Overfull(t) THEN Outcome(t, 0, "ub")
    ELSE Outcome([t EXCEPT !.rows = erase_swap(t.rows, where)], 0, "ok")

\* soa::erase_shift(where); `fault` says whether a read past the end of the
\* block faults.
soa_erase_shift(t, where, fault) ==
    IF where >= mysize(t) THEN Outcome(t, 0, "ok")
    ELSE IF Overfull(t) THEN Outcome(t, 0, "ub")
    ELSE IF ShiftOverreads(t) /\ fault THEN Outcome(t, 0, "ub")
    ELSE Outcome([t EXCEPT !.rows = erase_shift(t.rows, where)], 0, "ok")

\* soa::clear(): destruct_range(0, size), capacity kept.
soa_clear(t) ==
    IF Overfull(t) THEN Outcome(t, 0, "ub")
    ELSE Outcome([t EXCEPT !.rows = << >>], 0, "ok")

\* soa::serialize(num_bytes): shrink_to_fit, its result ignored; the value
\* returned here is num_bytes.
soa_serialize(t, allocOk) ==
    LET s == soa_shrink_to_fit(t, allocOk)
    IN  Outcome(s.t, size_per_entry * s.t.mycapacity, s.st)

\* soa::deserialize(n, num_bytes): reserve(n), its result ignored, then
\* mysize = n.  `content` is what the n rows hold once the caller has filled
\* the buffer (or what storage past the buffer yields); the value returned
\* here is num_bytes.
soa_deserialize(t, n, content, allocOk) ==
    LET g == soa_reserve(t, n, allocOk)
    IN  IF g.st # "ok" THEN g
        ELSE Outcome([g.t EXCEPT !.rows = content],
                     size_per_entry * g.t.mycapacity, "ok")

\* ------------------------------------------------------------------ state
\* The hash functions a run may use.
HashFns == { [k \in 0 .. (NumKeys - 1) |-> m * k] : m \in 0 .. MaxMult }

\* The largest argument given to reserve.
MaxReserve == MaxRows + 1

\* htable(): the default constructor.
InitTable ==
    /\ rows = EmptyTable.rows
    /\ mycapacity = EmptyTable.mycapacity
    /\ hashcapacity = EmptyTable.hashcapacity
    /\ hashmap = EmptyTable.hashmap
    /\ hashcursor = EmptyTable.hashcursor
    /\ mydata = EmptyTable.mydata
    /\ op = "init"
    /\ ret = 0
    /\ status = "ok"
    /\ lastFind = "none"

Init == InitTable /\ hashfn \in HashFns

\* The state after a call with outcome o.
Apply(o, name, lf) ==
    /\ rows' = o.t.rows
    /\ mycapacity' = o.t.mycapacity
    /\ hashcapacity' = o.t.hashcapacity
    /\ hashmap' = o.t.hashmap
    /\ hashcursor' = o.t.hashcursor
    /\ mydata' = o.t.mydata
    /\ op' = name
    /\ ret' = o.ret
    /\ status' = o.st
    /\ lastFind' = lf
    /\ UNCHANGED hashfn

\* ---------------------------------------------------------------- actions
Insert ==
    /\ status = "ok"
    /\ Len(rows) < MaxRows
    /\ \E key \in Keys, item \in Items :
          Apply(insert(Tbl, key, item, TRUE), "insert", lastFind)

Find ==
    /\ status = "ok"
    /\ \E key \in Keys, restart \in BOOLEAN :
          LET o == find(Tbl, key, restart)
          IN  Apply(o, "find", IF o.ret = SIZE_MAX THEN "notfound" ELSE "found")

EraseFound ==
    /\ status = "ok"
    /\ \E stale \in Keys : Apply(erase_found(Tbl, stale), "erase_found", "none")

Erase ==
    /\ status = "ok"
    /\ \E key \in Keys, stale \in Keys :
          Apply(erase(Tbl, key, stale), "erase", "none")

EraseAll ==
    /\ status = "ok"
    /\ \E key \in Keys, stale \in Keys :
          Apply(erase_all(Tbl, key, stale), "erase_all", "none")

EraseSorted ==
    /\ status = "ok"
    /\ \E key \in Keys, fault \in BOOLEAN :
          Apply(erase_sorted(Tbl, key, fault), "erase_sorted", "none")

Rehash ==
    /\ status = "ok"
    /\ Apply(rehash(Tbl), "rehash", "none")

Reserve ==
    /\ status = "ok"
    /\ \E n \in 0 .. MaxReserve : Apply(reserve(Tbl, n, TRUE), "reserve", "none")

ShrinkToFit ==
    /\ status = "ok"
    /\ Apply(shrink_to_fit(Tbl, TRUE), "shrink_to_fit", "none")

\* Every operation on the index, every allocation succeeding.
Next ==
    \/ Insert
    \/ Find
    \/ EraseFound
    \/ Erase
    \/ EraseAll
    \/ EraseSorted
    \/ Rehash
    \/ Reserve
    \/ ShrinkToFit

Spec == Init /\ [][Next]_vars

\* ------------------------------------------------- wearing out the index
\* insert, find, erase and erase_found only, as a caller that never holds
\* more than ProbeRows rows makes them: the table never grows, so nothing
\* ever rehashes it.
InitProbe ==
    /\ InitTable
    /\ hashfn = [k \in 0 .. (ProbeKeys - 1) |-> ProbeMult * k]

InsertProbe ==
    /\ status = "ok"
    /\ Len(rows) < ProbeRows
    /\ \E key \in Keys : Apply(insert(Tbl, key, 0, TRUE), "insert", lastFind)

NextProbe ==
    \/ InsertProbe
    \/ Find
    \/ EraseFound
    \/ Erase

SpecProbe == InitProbe /\ [][NextProbe]_vars

\* ----------------------------------------------------- reading a table
Occupied(v) == v # INDEXNUL /\ v # INDEXDEL

\* The slots that hold row index i.
SlotsOf(t, i) == { h \in DOMAIN t.hashmap : t.hashmap[h] = i }

\* Walking from slot h with stride 2 meets the slot holding i before any
\* INDEXNUL slot.
RECURSIVE ReachesSlot(_, _, _, _)
ReachesSlot(t, h, i, fuel) ==
    IF fuel = 0 \/ ~InMap(t, h) THEN FALSE
    ELSE IF t.hashmap[h] = i THEN TRUE
    ELSE IF t.hashmap[h] = INDEXNUL THEN FALSE
    ELSE ReachesSlot(t, hash_inc(h, t.hashcapacity), i, fuel - 1)

\* Row i is reachable by probing from hash(key of row i) % hashcapacity.
RowReachable(t, i) ==
    /\ t.hashcapacity > 0
    /\ ReachesSlot(t, Hash(At0(t, i)) % t.hashcapacity, i, t.hashcapacity)

\* The index is sound: occupied slots hold row indices below size, each row
\* index is held by exactly one slot, and each row is reachable from its
\* key's start slot before any INDEXNUL.
IndexSound(t) ==
    /\ \A h \in DOMAIN t.hashmap :
          Occupied(t.hashmap[h]) => t.hashmap[h] < mysize(t)
    /\ \A i \in 0 .. (mysize(t) - 1) :
          /\ Cardinality(SlotsOf(t, i)) = 1
          /\ RowReachable(t, i)

\* Some slot is a tombstone.
HasTombstone(t) == \E h \in DOMAIN t.hashmap : t.hashmap[h] = INDEXDEL

\* No slot is INDEXNUL.
Saturated(t) ==
    /\ t.hashcapacity > 0
    /\ \A h \in DOMAIN t.hashmap : t.hashmap[h] # INDEXNUL

\* The row indices whose key is `key`.
RowsWithKey(t, key) == { i \in 0 .. (mysize(t) - 1) : At0(t, i) = key }

\* The caller's loop  for (i = find(key, true); i != SIZE_MAX;
\* i = find(key, false)): the indices returned before SIZE_MAX, from the
\* outcome f of the first call on.  More than `fuel` indices mean that some
\* index came back twice; st = "ok" says SIZE_MAX was returned.
RECURSIVE EnumLoop(_, _, _, _)
EnumLoop(f, key, acc, fuel) ==
    IF f.st # "ok" THEN [seq |-> acc, st |-> f.st, t |-> f.t]
    ELSE IF f.ret = SIZE_MAX THEN [seq |-> acc, st |-> "ok", t |-> f.t]
    ELSE IF fuel = 0 THEN [seq |-> Append(acc, f.ret), st |-> "again", t |-> f.t]
    ELSE EnumLoop(find(f.t, key, FALSE), key, Append(acc, f.ret), fuel - 1)

Enumerate(t, key) == EnumLoop(find(t, key, TRUE), key, << >>, mysize(t))

\* A sequence without repetition.
Distinct(seq) == \A i, j \in 1 .. Len(seq) : i # j => seq[i] # seq[j]

Range(seq) == { seq[i] : i \in 1 .. Len(seq) }

\* find's result is the not-found value or the index of a row with the key.
ValidFindResult(t, key, r) ==
    r = SIZE_MAX \/ (r < mysize(t) /\ At0(t, r) = key)

\* Row i is among the rows the find loop on its key returns.
Findable(t, i) == i \in Range(Enumerate(t, At0(t, i)).seq)

\* rws without its row at index i (0-based), the other rows in their order.
RemoveAt(rws, i) == SubSeq(rws, 1, i) \o SubSeq(rws, i + 2, Len(rws))

\* The number of slots that hold a row index.
OccupiedSlots(t) == Cardinality({ h \in DOMAIN t.hashmap : Occupied(t.hashmap[h]) })

\* How many rows of rws equal r.
RowCount(rws, r) == Cardinality({ i \in 1 .. Len(rws) : rws[i] = r })

\* ------------------------------------------------------ insert-only runs
\* Rows are inserted with the number of earlier inserts as payload, so the
\* payload tells the insertion order; the caller's find loop runs on any key
\* at any time.
InitIns ==
    /\ InitTable
    /\ hashfn \in { [k \in 0 .. (InsKeys - 1) |-> m * k] : m \in 0 .. MaxMult }

InsertTicket ==
    /\ status = "ok"
    /\ Len(rows) < InsRows
    /\ \E key \in Keys :
          Apply(insert(Tbl, key, Len(rows), TRUE), "insert", lastFind)

EnumerateKey ==
    /\ status = "ok"
    /\ \E key \in Keys :
          LET e == Enumerate(Tbl, key)
          IN  Apply(Outcome(e.t, e.seq, e.st), "enumerate", "notfound")

NextIns ==
    \/ InsertTicket
    \/ EnumerateKey

SpecIns == InitIns /\ [][NextIns]_vars

\* The insert-only runs in which the allocation of a growing insert may fail.
InsertTicketAlloc ==
    /\ status = "ok"
    /\ Len(rows) < InsRows
    /\ \E key \in Keys, allocOk \in BOOLEAN :
          Apply(insert(Tbl, key, Len(rows), allocOk), "insert", lastFind)

NextInsAlloc ==
    \/ InsertTicketAlloc
    \/ EnumerateKey

SpecInsAlloc == InitIns /\ [][NextInsAlloc]_vars

\* ------------------------------------------------- failing allocations
\* insert, reserve and shrink_to_fit with _soa_aligned_malloc succeeding or
\* returning null, find and erase between them.
InsertAlloc ==
    /\ status = "ok"
    /\ Len(rows) < MaxRows
    /\ \E key \in Keys, item \in Items, allocOk \in BOOLEAN :
          Apply(insert(Tbl, key, item, allocOk), "insert", lastFind)

ReserveAlloc ==
    /\ status = "ok"
    /\ \E n \in 0 .. MaxReserve, allocOk \in BOOLEAN :
          Apply(reserve(Tbl, n, allocOk), "reserve", "none")

ShrinkAlloc ==
    /\ status = "ok"
    /\ \E allocOk \in BOOLEAN :
          Apply(shrink_to_fit(Tbl, allocOk), "shrink_to_fit", "none")

NextAlloc ==
    \/ InsertAlloc
    \/ ReserveAlloc
    \/ ShrinkAlloc
    \/ Find
    \/ Erase

SpecAlloc == Init /\ [][NextAlloc]_vars

\* ------------------------------------------------------ the probe walk
\* hash_inc applied over and over from any start slot of any odd slot count;
\* ret is the walk so far, the start slot included.
InitStride ==
    /\ hashcapacity \in { hc \in 1 .. StrideMax : hc % 2 = 1 }
    /\ hashcursor \in 0 .. (hashcapacity - 1)
    /\ ret = << hashcursor >>
    /\ rows = << >>
    /\ mycapacity = 0
    /\ hashmap = NullMap
    /\ mydata = nullify
    /\ hashfn = [k \in 0 .. (NumKeys - 1) |-> 0]
    /\ op = "init"
    /\ status = "ok"
    /\ lastFind = "none"

HashInc ==
    /\ status = "ok"
    /\ Len(ret) < hashcapacity
    /\ hashcursor' = hash_inc(hashcursor, hashcapacity)
    /\ ret' = Append(ret, hashcursor')
    /\ op' = "hash_inc"
    /\ UNCHANGED <<rows, mycapacity, hashcapacity, hashmap, mydata, hashfn, status,
                   lastFind>>

SpecStride == InitStride /\ [][HashInc]_vars

\* ------------------------------------------- the column store's operations
\* The largest row count asked of reserve, resize and deserialize.
SoaMaxN == SoaRows + 1

\* soa(): no rows, no capacity.  The index variables keep their initial value.
InitSoa ==
    /\ InitTable
    /\ hashfn = [k \in 0 .. (NumKeys - 1) |-> 0]

\* The sequences of n rows.
RECURSIVE RowSeqs(_)
RowSeqs(n) ==
    IF n = 0 THEN { << >> }
    ELSE { Append(rws, row) : rws \in RowSeqs(n - 1), row \in SoaRowVals }

SoaReserve ==
    /\ status = "ok"
    /\ \E n \in 0 .. SoaMaxN, allocOk \in BOOLEAN :
          Apply(soa_reserve(Tbl, n, allocOk), "reserve", "none")

SoaShrinkToFit ==
    /\ status = "ok"
    /\ \E allocOk \in BOOLEAN :
          Apply(soa_shrink_to_fit(Tbl, allocOk), "shrink_to_fit", "none")

SoaResize ==
    /\ status = "ok"
    /\ \E n \in 0 .. SoaRows, allocOk \in BOOLEAN :
          Apply(soa_resize(Tbl, n, allocOk), "resize", "none")

SoaResizeFill ==
    /\ status = "ok"
    /\ \E n \in 0 .. SoaRows, fill \in SoaRowVals, allocOk \in BOOLEAN :
          Apply(soa_resize_fill(Tbl, n, fill, allocOk), "resize_fill", "none")

SoaPushBack ==
    /\ status = "ok"
    /\ Len(rows) < SoaRows
    /\ \E row \in SoaRowVals, allocOk \in BOOLEAN :
          Apply(soa_push_back(Tbl, row, allocOk), "push_back", "none")

SoaInsert ==
    /\ status = "ok"
    /\ Len(rows) < SoaRows
    /\ \E where \in 0 .. (Len(rows) + 1), row \in SoaRowVals, allocOk \in BOOLEAN :
          Apply(soa_insert(Tbl, where, row, allocOk), "insert", "none")

SoaPopBack ==
    /\ status = "ok"
    /\ Apply(soa_pop_back(Tbl), "pop_back", "none")

SoaEraseSwap ==
    /\ status = "ok"
    /\ \E where \in 0 .. Len(rows) :
          Apply(soa_erase_swap(Tbl, where), "erase_swap", "none")

SoaEraseShift ==
    /\ status = "ok"
    /\ \E where \in 0 .. Len(rows), fault \in BOOLEAN :
          Apply(soa_erase_shift(Tbl, where, fault), "erase_shift", "none")

SoaClear ==
    /\ status = "ok"
    /\ Apply(soa_clear(Tbl), "clear", "none")

SoaSerialize ==
    /\ status = "ok"
    /\ \E allocOk \in BOOLEAN :
          Apply(soa_serialize(Tbl, allocOk), "serialize", "none")

SoaDeserialize ==
    /\ status = "ok"
    /\ \E n \in 0 .. SoaRows, allocOk \in BOOLEAN :
          \E content \in RowSeqs(n) :
              Apply(soa_deserialize(Tbl, n, content, allocOk), "deserialize", "none")

NextSoa ==
    \/ SoaReserve
    \/ SoaShrinkToFit
    \/ SoaResize
    \/ SoaResizeFill
    \/ SoaPushBack
    \/ SoaInsert
    \/ SoaPopBack
    \/ SoaEraseSwap
    \/ SoaEraseShift
    \/ SoaClear
    \/ SoaSerialize
    \/ SoaDeserialize

SpecSoa == InitSoa /\ [][NextSoa]_vars

\* push_back calls alone on an empty soa, each allocation succeeding or not.
PushBackOnly ==
    /\ status = "ok"
    /\ Len(rows) < PushRows
    /\ \E row \in SoaRowVals, allocOk \in BOOLEAN :
          Apply(soa_push_back(Tbl, row, allocOk), "push_back", "none")

SpecPush == InitSoa /\ [][PushBackOnly]_vars

\* ------------------------------------------------------- swapping rows
SwapEntries ==
    /\ status = "ok"
    /\ \E first, second \in 0 .. (Len(rows) - 1) :
          Apply(swap_entries(Tbl, first, second), "swap_entries", "none")

NextSwap ==
    \/ Insert
    \/ Find
    \/ Erase
    \/ SwapEntries

SpecSwap == Init /\ [][NextSwap]_vars

\* ------------------------------------------------------------------ claims
\* C1: in every state reached by insert, find, erase_found, erase,
\* erase_all, erase_sorted, rehash, reserve and shrink_to_fit calls with
\* allocations succeeding, for every hash function of the family: every
\* occupied slot holds a row index < size, every row index 0..size-1 is held
\* by exactly one slot, and probing with stride 2 from hash(key of row i) mod
\* hashcapacity reaches the slot holding i before any INDEXNUL slot.
C1_IndexSound == IndexSound(Tbl)

\* C1 witness: after growth to the second capacity, an erase and a new
\* insert: the table is full again, holds two rows with one key, and a
\* tombstone is still in the slot array.
C1_Witness ==
    /\ op = "insert"
    /\ mycapacity = 2 * Quantum
    /\ Len(rows) = MaxRows
    /\ HasTombstone(Tbl)
    /\ \E i, j \in 1 .. Len(rows) : i # j /\ rows[i].key = rows[j].key

\* C2: in any reachable state every call find(key, restart), for either
\* value of restart, returns SIZE_MAX or an index i < size whose row's key
\* equals key.
C2_FindReturnsValid ==
    status = "ok" =>
        \A key \in Keys, restart \in BOOLEAN :
            LET f == find(Tbl, key, restart)
            IN  f.st = "ok" /\ ValidFindResult(Tbl, key, f.ret)

\* The part of C2 that holds: a find call that returns, returns SIZE_MAX or
\* the index of a row with the key.
C2_ValidWhenReturned ==
    status = "ok" =>
        \A key \in Keys, restart \in BOOLEAN :
            LET f == find(Tbl, key, restart)
            IN  f.st = "ok" => ValidFindResult(Tbl, key, f.ret)

\* C3: in any reachable state and for any key k, find(k, true) followed by
\* find(k, false) calls until not-found returns every row whose key is k
\* exactly once, and the next call returns not-found.
C3_EnumeratesOnce ==
    status = "ok" =>
        \A key \in Keys :
            LET e == Enumerate(Tbl, key)
            IN  /\ e.st = "ok"
                /\ Distinct(e.seq)
                /\ Range(e.seq) = RowsWithKey(Tbl, key)

\* C4: after inserts only (growth and rehash included), find(k, true) and
\* then find(k, false) calls return the rows with key k in the order in which
\* they were inserted, then not-found.
C4_InsertionOrder ==
    status = "ok" =>
        \A key \in Keys :
            LET e == Enumerate(Tbl, key)
            IN  /\ e.st = "ok"
                /\ Range(e.seq) = RowsWithKey(Tbl, key)
                /\ \A i, j \in 1 .. Len(e.seq) :
                      i < j => At1(Tbl, e.seq[i]) < At1(Tbl, e.seq[j])

\* C4 witness: the find loop has returned two rows of one key, with a row of
\* another key inserted between them, in a table that has grown twice.
C4_Witness ==
    /\ op = "enumerate"
    /\ status = "ok"
    /\ mycapacity = 4 * Quantum
    /\ Len(rows) = InsRows
    /\ Len(ret) >= 2
    /\ ret[2] > ret[1] + 1

\* C5: in any reachable state erase_all(k) returns the number of rows that
\* had key k, decreases size by that number, leaves count(k) = 0 and
\* find(k, true) not-found, and every row with another key is still there
\* with its payload and still returned by find on its key.
C5_EraseAllCorrect ==
    status = "ok" =>
        \A key \in Keys, stale \in Keys :
            LET n == Cardinality(RowsWithKey(Tbl, key))
                e == erase_all(Tbl, key, stale)
            IN  /\ e.st = "ok"
                /\ e.ret = n
                /\ mysize(e.t) = mysize(Tbl) - n
                /\ count(e.t, key) = Outcome(e.t, 0, "ok")
                /\ find(e.t, key, TRUE).st = "ok"
                /\ find(e.t, key, TRUE).ret = SIZE_MAX
                /\ \A r \in Range(Tbl.rows) :
                      r.key # key => RowCount(e.t.rows, r) = RowCount(Tbl.rows, r)
                /\ \A i \in 0 .. (mysize(e.t) - 1) : Findable(e.t, i)

\* C6: in every state reached by insert, erase and erase_found calls (and
\* the find calls erase_found needs), find(key, true) terminates for every
\* key, present or not.
C6_FindTerminates ==
    status = "ok" => \A key \in Keys : find(Tbl, key, TRUE).st # "hang"

\* C7: when the allocation inside reserve fails, in a direct call or in an
\* insert into a full table, the call returns false and size, capacity,
\* hashcapacity, the slot array, the cursor and the rows are as before.
C7_FailedReserveUnchanged ==
    status = "ok" =>
        /\ \A n \in 0 .. MaxReserve :
              ReserveSize(n) > mycapacity =>
                  reserve(Tbl, n, FALSE) = Outcome(Tbl, FALSE, "ok")
        /\ \A key \in Keys, item \in Items :
              mysize(Tbl) = mycapacity =>
                  insert(Tbl, key, item, FALSE) = Outcome(Tbl, FALSE, "ok")

\* The part of C7 that holds: the failed call returns false and the rows,
\* the capacity, the slot array and the cursor are as before.
C7_FailedReserveKeepsRows ==
    status = "ok" =>
        \A n \in 0 .. MaxReserve :
            ReserveSize(n) > mycapacity =>
                LET o == reserve(Tbl, n, FALSE)
                IN  /\ o.ret = FALSE
                    /\ o.st = "ok"
                    /\ [o.t EXCEPT !.hashcapacity = hashcapacity] = Tbl

\* C8: when the last operation was a find that returned index i,
\* erase_found returns 1, decreases size by 1, removes exactly the row that
\* was at index i, and every other row is still there with its key and
\* payload and still returned by find on its key.
C8_EraseFoundRemovesRow ==
    (op = "find" /\ status = "ok" /\ ret # SIZE_MAX) =>
        \A stale \in Keys :
            LET e == erase_found(Tbl, stale)
            IN  /\ e.st = "ok"
                /\ e.ret = 1
                /\ mysize(e.t) = mysize(Tbl) - 1
                /\ \A r \in Range(rows) :
                      RowCount(e.t.rows, r) =
                          RowCount(rows, r) - (IF r = rows[ret + 1] THEN 1 ELSE 0)
                /\ \A i \in 0 .. (mysize(e.t) - 1) : Findable(e.t, i)

\* C9: in every state in which the most recent find returned not-found,
\* whatever inserts were made since, erase_found returns 0 and leaves size,
\* the rows and the slot array unchanged.
C9_EraseFoundAfterNotFound ==
    (status = "ok" /\ lastFind = "notfound") =>
        \A stale \in Keys : erase_found(Tbl, stale) = Outcome(Tbl, 0, "ok")

\* The part of C9 that holds: erase_found right after a find that returned
\* not-found, no insert between them.
C9_EraseFoundRightAfterNotFound ==
    (op = "find" /\ status = "ok" /\ ret = SIZE_MAX) =>
        \A stale \in Keys : erase_found(Tbl, stale) = Outcome(Tbl, 0, "ok")

\* C10: for any a, b < size, swap_entries(a, b) exchanges rows a and b,
\* writes only to slots of the slot array, and every row is afterwards still
\* returned by find on its key.
C10_SwapEntriesSafe ==
    status = "ok" =>
        \A a, b \in 0 .. (Len(rows) - 1) :
            LET s == swap_entries(Tbl, a, b)
            IN  /\ s.st = "ok"
                /\ s.t.rows = base_swap_entries(rows, a, b)
                /\ \A i \in 0 .. (mysize(s.t) - 1) : Findable(s.t, i)

\* The part of C10 that holds: a swap of a row with itself, or of two rows
\* with one key, is safe and keeps every row findable.
C10_SwapSameKeySafe ==
    status = "ok" =>
        \A a, b \in 0 .. (Len(rows) - 1) :
            rows[a + 1].key = rows[b + 1].key =>
                LET s == swap_entries(Tbl, a, b)
                IN  /\ s.st = "ok"
                    /\ s.t.rows = base_swap_entries(rows, a, b)
                    /\ \A i \in 0 .. (mysize(s.t) - 1) : Findable(s.t, i)

\* C11: in any reachable state count(key) returns the number of rows whose
\* key is key and leaves the find cursor, the slot array, size and the rows
\* unchanged, so that a following find(k, false) continues as it would have.
C11_CountCorrect ==
    status = "ok" =>
        \A key \in Keys :
            LET c == count(Tbl, key)
            IN  /\ c.st = "ok"
                /\ c.ret = Cardinality(RowsWithKey(Tbl, key))
                /\ c.t = Tbl
                /\ \A k \in Keys : find(c.t, k, FALSE) = find(Tbl, k, FALSE)

\* C12: with the allocation succeeding and size below max_size,
\* insert(key, payload) returns true for any key, appends the row at index
\* old size, increases count(key) by exactly 1, and leaves every existing row
\* at its index and the count of every other key unchanged.
C12_InsertAppends ==
    (status = "ok" /\ mysize(Tbl) < max_size) =>
        \A key \in Keys, item \in Items :
            LET o == insert(Tbl, key, item, TRUE)
            IN  /\ o.st = "ok"
                /\ o.ret = TRUE
                /\ o.t.rows = Append(rows, [key |-> key, item |-> item])
                /\ \A k \in Keys :
                      /\ count(Tbl, k).st = "ok"
                      /\ count(o.t, k).st = "ok"
                      /\ count(o.t, k).ret =
                            count(Tbl, k).ret + (IF k = key THEN 1 ELSE 0)

\* The part of C12 that holds: the insert returns true and appends the row,
\* every earlier row staying at its index, in every state reached with
\* allocations succeeding.
C12_InsertAppendsRow ==
    (status = "ok" /\ mysize(Tbl) < max_size) =>
        \A key \in Keys, item \in Items :
            LET o == insert(Tbl, key, item, TRUE)
            IN  /\ o.st = "ok"
                /\ o.ret = TRUE
                /\ o.t.rows = Append(rows, [key |-> key, item |-> item])

\* C13: in any reachable state erase(key) returns 1 and removes exactly one
\* row with that key when there is one (count(key) decreases by 1, every
\* other row stays findable), and returns 0 leaving size, rows and slot
\* array unchanged when there is none, the empty table included.
C13_EraseOne ==
    status = "ok" =>
        \A key \in Keys, stale \in Keys :
            LET e == erase(Tbl, key, stale)
                S == RowsWithKey(Tbl, key)
            IN  /\ e.st = "ok"
                /\ IF S # {}
                   THEN /\ e.ret = 1
                        /\ mysize(e.t) = mysize(Tbl) - 1
                        /\ \E i \in S : \A r \in Range(rows) :
                              RowCount(e.t.rows, r) =
                                  RowCount(rows, r) - (IF r = rows[i + 1] THEN 1 ELSE 0)
                        /\ count(e.t, key).st = "ok"
                        /\ count(e.t, key).ret = Cardinality(S) - 1
                        /\ \A i \in 0 .. (mysize(e.t) - 1) : Findable(e.t, i)
                   ELSE /\ e.ret = 0
                        /\ e.t.rows = rows
                        /\ e.t.hashmap = hashmap

\* erase_sorted(key) does what C14 says, whether or not a read past the
\* block faults.
EraseSortedKeepsOrder(key, fault) ==
    LET e == erase_sorted(Tbl, key, fault)
        S == RowsWithKey(Tbl, key)
    IN  /\ e.st = "ok"
        /\ IF S # {}
           THEN /\ e.ret = 1
                /\ \E i \in S : e.t.rows = RemoveAt(rows, i)
                /\ ~HasTombstone(e.t)
                /\ \A i \in 0 .. (mysize(e.t) - 1) : Findable(e.t, i)
           ELSE /\ e.ret = 0
                /\ e.t.rows = rows

\* C14: erase_sorted(key) returns 1 when a row has the key, removes one such
\* row, keeps the other rows in their order, and leaves no TOMBSTONE slot
\* and every remaining row returned by find on its key; when no row has the
\* key it returns 0 and changes no row.
C14_EraseSortedKeepsOrder ==
    status = "ok" =>
        \A key \in Keys, fault \in BOOLEAN : EraseSortedKeepsOrder(key, fault)

\* C14 in the states whose size is below the capacity.
C14_EraseSortedWhenRoom ==
    (status = "ok" /\ Len(rows) < mycapacity) =>
        \A key \in Keys, fault \in BOOLEAN : EraseSortedKeepsOrder(key, fault)

\* C15: in any reachable state rehash leaves size and every row unchanged,
\* and afterwards no slot is TOMBSTONE, exactly size slots are occupied, and
\* for every key the rows the find loop returns are the rows with that key.
C15_RehashClean ==
    status = "ok" =>
        LET r == rehash(Tbl)
        IN  /\ r.st = "ok"
            /\ r.t.rows = rows
            /\ ~HasTombstone(r.t)
            /\ OccupiedSlots(r.t) = mysize(Tbl)
            /\ \A key \in Keys :
                  LET e == Enumerate(r.t, key)
                  IN  e.st = "ok" /\ Range(e.seq) = RowsWithKey(Tbl, key)

\* C16: in every reachable state with capacity > 0, reached through reserve,
\* shrink_to_fit and growing inserts whose allocations succeed or fail,
\* hashcapacity is odd and greater than 2 * capacity; when capacity is 0
\* after shrink_to_fit, hashcapacity is 0 and there is no slot array.
C16_HashCapacityOdd ==
    status = "ok" =>
        /\ mycapacity > 0 =>
              (hashcapacity % 2 = 1 /\ hashcapacity > 2 * mycapacity)
        /\ (op = "shrink_to_fit" /\ mycapacity = 0) =>
              (hashcapacity = 0 /\ hashmap = NullMap)

\* C17: for every odd hashcapacity and every start slot s, the walk s,
\* (s+2) mod hashcapacity, (s+4) mod hashcapacity, ... visits each of the
\* hashcapacity slots exactly once within its first hashcapacity steps.
C17_StrideVisitsAll ==
    /\ Distinct(ret)
    /\ Range(ret) \subseteq 0 .. (hashcapacity - 1)
    /\ Len(ret) = hashcapacity => Range(ret) = 0 .. (hashcapacity - 1)

\* C17 witness: a walk of 2 * 16 + 3 steps over the slot array of the
\* smallest real table, started in its middle.
C17_Witness ==
    /\ op = "hash_inc"
    /\ hashcapacity = 35
    /\ Len(ret) = hashcapacity
    /\ ret[1] = 17

\* C18: in every state reached by soa operations, their allocations
\* succeeding or failing, capacity is a multiple of the quantum and
\* size <= capacity.
C18_Quantized ==
    status = "ok" => (mycapacity % Quantum = 0 /\ Len(rows) <= mycapacity)

\* The part of C18 that holds: capacity is a multiple of the quantum.
C18_CapacityQuantized == mycapacity % Quantum = 0

\* The least multiple of the quantum that is >= n and >= one quantum.
LeastMultiple(n) ==
    CHOOSE c \in { Quantum * k : k \in 1 .. (n + 1) } :
        /\ c >= n
        /\ \A d \in { Quantum * k : k \in 1 .. (n + 1) } : d >= n => c <= d

\* C19: for every n, soa reserve(n) changes nothing when n rounded up to a
\* multiple of the quantum (one quantum for n = 0) is <= capacity; otherwise,
\* the allocation succeeding, it returns true with capacity equal to that
\* multiple, hence >= n, and with size and every row unchanged.
C19_ReserveCorrect ==
    status = "ok" =>
        \A n \in 0 .. SoaMaxN :
            LET r == soa_reserve(Tbl, n, TRUE)
            IN  IF LeastMultiple(n) <= mycapacity
                THEN r = Outcome(Tbl, TRUE, "ok")
                ELSE /\ r.st = "ok"
                     /\ r.ret = TRUE
                     /\ r.t.mycapacity = LeastMultiple(n)
                     /\ r.t.mycapacity >= n
                     /\ r.t.rows = rows

\* The part of C19 that holds: the same in every state with size <= capacity.
C19_ReserveCorrectWhenFits ==
    (status = "ok" /\ Len(rows) <= mycapacity) =>
        \A n \in 0 .. SoaMaxN :
            LET r == soa_reserve(Tbl, n, TRUE)
            IN  IF LeastMultiple(n) <= mycapacity
                THEN r = Outcome(Tbl, TRUE, "ok")
                ELSE /\ r.st = "ok"
                     /\ r.ret = TRUE
                     /\ r.t.mycapacity = LeastMultiple(n)
                     /\ r.t.mycapacity >= n
                     /\ r.t.rows = rows

\* The capacity after k rows were pushed onto an empty soa: 0 for k = 0,
\* else one quantum doubled until it holds k rows.
RECURSIVE Doubled(_, _)
Doubled(c, k) == IF c >= k THEN c ELSE Doubled(2 * c, k)

GrowthCap(k) == IF k = 0 THEN 0 ELSE Doubled(Quantum, k)

\* C20: starting from an empty soa, after k push_back calls that returned
\* true size is k and capacity is one quantum for 1 <= k <= quantum, two for
\* quantum < k <= 2 * quantum (a push_back at size = capacity doubles the
\* capacity, 0 becoming one quantum), and every push_back appends its row
\* behind the rows pushed before, which keep their values in every column.
C20_PushBackGrowth ==
    status = "ok" =>
        /\ mycapacity = GrowthCap(Len(rows))
        /\ \A row \in SoaRowVals :
              LET o == soa_push_back(Tbl, row, TRUE)
              IN  /\ o.st = "ok"
                  /\ o.ret = TRUE
                  /\ o.t.rows = Append(rows, row)
                  /\ o.t.mycapacity = GrowthCap(Len(rows) + 1)

\* C20 witness: the push_back that takes the soa past two quanta has
\* returned true: capacity has doubled a second time and the rows pushed
\* first are still in place.
C20_Witness ==
    /\ op = "push_back"
    /\ ret = TRUE
    /\ Len(rows) = 2 * Quantum + 1
    /\ mycapacity = 4 * Quantum
    /\ rows[1] = [key |-> 1, item |-> 0]
    /\ rows[2] = [key |-> 0, item |-> 1]

\* C21: in every state of the column store, after any sequence of its
\* operations, a capacity above 0 goes with column 1 starting
\* sizeof(column 0) * capacity bytes behind column 0, the capacity being the
\* current one, and capacity 0 goes with every column pointer null.
C21_ColumnOffsets ==
    status = "ok" =>
        IF mycapacity > 0
        THEN /\ mydata[1] # nullptr
             /\ mydata[2] = mydata[1] + sizeof_FT * mycapacity
        ELSE mydata = nullify

\* A push_back has grown the block from one quantum to two.
C21_Witness ==
    /\ op = "push_back"
    /\ ret = TRUE
    /\ Len(rows) = Quantum + 1
    /\ mycapacity = 2 * Quantum
    /\ mydata = << 0, sizeof_FT * 2 * Quantum >>

\* `after` is `before` with `row` put at index at (0-based): the rows below
\* at keep their index and the rows from at on have moved one index up.
InsertedAt(before, after, at, row) ==
    /\ Len(after) = Len(before) + 1
    /\ after[at + 1] = row
    /\ \A i \in 0 .. (at - 1) : after[i + 1] = before[i + 1]
    /\ \A i \in at .. (Len(before) - 1) : after[i + 2] = before[i + 1]

\* insert(at, row) with its allocation succeeding returns true with the row
\* at index at and the earlier rows shifted as InsertedAt says.
InsertShifts(at, row) ==
    LET o == soa_insert(Tbl, at, row, TRUE)
    IN  /\ o.st = "ok"
        /\ o.ret = TRUE
        /\ InsertedAt(rows, o.t.rows, at, row)

\* C22: soa insert(at, row) with at <= size and the allocation succeeding
\* returns true, increases size by 1, places the new row at index at, leaves
\* rows [0, at) unchanged and moves each row of [at, size) one index up, in
\* every column.
C22_InsertShifts ==
    status = "ok" =>
        \A at \in 0 .. Len(rows), row \in SoaRowVals : InsertShifts(at, row)

\* C22 in the states whose size does not exceed the capacity.
C22_InsertShiftsWhenFits ==
    (status = "ok" /\ ~Overfull(Tbl)) =>
        \A at \in 0 .. Len(rows), row \in SoaRowVals : InsertShifts(at, row)

\* insert(at, row) returns false and leaves size, capacity, the column
\* pointers and every row as they were.
InsertRefused(at, row, allocOk) ==
    soa_insert(Tbl, at, row, allocOk) = Outcome(Tbl, FALSE, "ok")

\* C23: soa insert(at, row) with at > size returns false and leaves size,
\* capacity, the column pointers and every row unchanged, also when size
\* equals capacity at the time of the call.
C23_InsertOutOfBounds ==
    status = "ok" =>
        \A at \in (Len(rows) + 1) .. (Len(rows) + 2), row \in SoaRowVals,
           allocOk \in BOOLEAN : InsertRefused(at, row, allocOk)

\* C23 in the states whose size differs from the capacity.
C23_InsertOutOfBoundsWhenRoom ==
    (status = "ok" /\ Len(rows) # mycapacity) =>
        \A at \in (Len(rows) + 1) .. (Len(rows) + 2), row \in SoaRowVals,
           allocOk \in BOOLEAN : InsertRefused(at, row, allocOk)

\* `after` is `before` without its row at index at: the rows below at keep
\* their index and the rows above it have moved one index down.
ShiftedOut(before, after, at) ==
    /\ Len(after) = Len(before) - 1
    /\ \A i \in 0 .. (at - 1) : after[i + 1] = before[i + 1]
    /\ \A i \in (at + 1) .. (Len(before) - 1) : after[i] = before[i + 1]

\* erase_shift(at) does what C24 says, whether or not a read past the block
\* faults.
EraseShiftKeepsOrder(at) ==
    \A fault \in BOOLEAN :
        LET o == soa_erase_shift(Tbl, at, fault)
        IN  /\ o.st = "ok"
            /\ o.t.mycapacity = mycapacity
            /\ IF at < Len(rows) THEN ShiftedOut(rows, o.t.rows, at)
               ELSE o.t = Tbl

\* C24: soa erase_shift(at) with at < size decreases size by 1, leaves rows
\* [0, at) unchanged and moves each row of (at, size) one index down, so the
\* remaining rows keep their relative order; with at >= size it changes
\* nothing.
C24_EraseShiftKeepsOrder ==
    status = "ok" => \A at \in 0 .. (Len(rows) + 1) : EraseShiftKeepsOrder(at)

\* C24 in the states whose size is below the capacity.
C24_EraseShiftWhenRoom ==
    (status = "ok" /\ Len(rows) < mycapacity) =>
        \A at \in 0 .. (Len(rows) + 1) : EraseShiftKeepsOrder(at)

\* `after` is `before` with its last row moved to index at and the size one
\* less; every other row keeps its index and values.
SwappedOut(before, after, at) ==
    /\ Len(after) = Len(before) - 1
    /\ at # Len(before) - 1 => after[at + 1] = before[Len(before)]
    /\ \A i \in 0 .. (Len(before) - 2) : i # at => after[i + 1] = before[i + 1]

\* erase_swap(at) does what C25 says.
EraseSwapMovesLast(at) ==
    LET o == soa_erase_swap(Tbl, at)
    IN  /\ o.st = "ok"
        /\ IF at < Len(rows) THEN SwappedOut(rows, o.t.rows, at)
           ELSE o.t = Tbl

\* C25: soa erase_swap(at) with at < size decreases size by 1, puts the row
\* of index size-1 at index at (when at is not the last index) and leaves
\* every other remaining row at its index; with at >= size it changes
\* nothing.
C25_EraseSwapMovesLast ==
    status = "ok" => \A at \in 0 .. (Len(rows) + 1) : EraseSwapMovesLast(at)

\* C25 in the states whose size does not exceed the capacity.
C25_EraseSwapWhenFits ==
    (status = "ok" /\ ~Overfull(Tbl)) =>
        \A at \in 0 .. (Len(rows) + 1) : EraseSwapMovesLast(at)

\* ---------------------------------------------------------- binary search
\* Column K of the rows: data<K>()[0 .. size).
Column(rws, K) == [i \in 1 .. Len(rws) |-> IF K = 0 THEN rws[i].key ELSE rws[i].item]

\* The while loop of lower_bound<0> over the column, from (left, right).
RECURSIVE LowerLoop(_, _, _, _)
LowerLoop(col, goal, left, right) ==
    IF left < right
    THEN LET middle == (left + right) \div 2
         IN  IF col[middle + 1] < goal THEN LowerLoop(col, goal, middle + 1, right)
             ELSE LowerLoop(col, goal, left, middle)
    ELSE left

\* Mutant of lower_bound: the search for the first greater element.
lower_bound_greater(rws, K, goal) ==
    Cardinality({ i \in 1 .. Len(rws) : Column(rws, K)[i] <= goal })

\* lower_bound<K>(goal)
lower_bound(rws, K, goal) == LowerLoop(Column(rws, K), goal, 0, Len(rws))

\* The while loop of upper_bound<0> over the column, from (left, right).
RECURSIVE UpperLoop(_, _, _, _)
UpperLoop(col, goal, left, right) ==
    IF left < right
    THEN LET middle == (left + right) \div 2
         IN  IF goal < col[middle + 1] THEN UpperLoop(col, goal, left, middle)
             ELSE UpperLoop(col, goal, middle + 1, right)
    ELSE left

\* upper_bound<K>(goal)
upper_bound(rws, K, goal) == UpperLoop(Column(rws, K), goal, 0, Len(rws))

\* The column is in non-decreasing order.
Ascending(col) == \A i \in 1 .. (Len(col) - 1) : col[i] <= col[i + 1]

\* The ascending columns of n values.
AscendingCols(n) == { c \in [1 .. n -> 0 .. BoundMaxVal] : Ascending(c) }

\* A container whose column K holds col; the other column counts down, so it
\* is ascending only when the container has at most one row.
RowsOfColumn(col, K) ==
    [i \in 1 .. Len(col) |->
        IF K = 0 THEN [key |-> col[i], item |-> Len(col) - i]
        ELSE [key |-> Len(col) - i, item |-> col[i]]]

\* Containers with one column in ascending order, built by reserve(n) and n
\* calls of push_back.
InitBound ==
    /\ \E n \in 0 .. BoundRows, K \in 0 .. 1 :
          \E col \in AscendingCols(n) : rows = RowsOfColumn(col, K)
    /\ mycapacity = IF Len(rows) = 0 THEN 0 ELSE ReserveSize(Len(rows))
    /\ mydata = IF mycapacity = 0 THEN nullify
                ELSE divy_buffer_mydata(0, mycapacity)
    /\ hashcapacity = 0
    /\ hashmap = NullMap
    /\ hashcursor = SIZE_MAX
    /\ hashfn = [k \in 0 .. (NumKeys - 1) |-> 0]
    /\ op = "init"
    /\ ret = 0
    /\ status = "ok"
    /\ lastFind = "none"

\* The goals searched for: every value and one above them all.
Goals == 0 .. (BoundMaxVal + 1)

LowerBound ==
    /\ \E K \in 0 .. 1, goal \in Goals :
          /\ Ascending(Column(rows, K))
          /\ ret' = [K |-> K, goal |-> goal, index |-> lower_bound(rows, K, goal)]
    /\ op' = "lower_bound"
    /\ UNCHANGED <<rows, mycapacity, hashcapacity, hashmap, hashcursor, mydata,
                   hashfn, status, lastFind>>

UpperBound ==
    /\ \E K \in 0 .. 1, goal \in Goals :
          /\ Ascending(Column(rows, K))
          /\ ret' = [K |-> K, goal |-> goal, index |-> upper_bound(rows, K, goal)]
    /\ op' = "upper_bound"
    /\ UNCHANGED <<rows, mycapacity, hashcapacity, hashmap, hashcursor, mydata,
                   hashfn, status, lastFind>>

NextBound == LowerBound \/ UpperBound

SpecBound == InitBound /\ [][NextBound]_vars

\* The number of elements of the column below goal, and at most goal.
CountBelow(col, goal) == Cardinality({ i \in 1 .. Len(col) : col[i] < goal })

CountUpTo(col, goal) == Cardinality({ i \in 1 .. Len(col) : col[i] <= goal })

\* C26: for a container whose column K is ascending and any key,
\* lower_bound<K>(key) is the number of rows whose value is below key and
\* upper_bound<K>(key) the number of rows whose value is at most key, so the
\* rows of [lower_bound, upper_bound) are exactly the rows equal to key, and
\* lower_bound of a key above every value is size.
C26_BoundsBracket ==
    \A K \in 0 .. 1, goal \in Goals :
        LET col == Column(rows, K)
            lb == lower_bound(rows, K, goal)
            ub == upper_bound(rows, K, goal)
        IN  Ascending(col) =>
                /\ lb = CountBelow(col, goal)
                /\ ub = CountUpTo(col, goal)
                /\ \A i \in 0 .. (Len(rows) - 1) :
                      (lb <= i /\ i < ub) <=> (col[i + 1] = goal)
                /\ (\A i \in 1 .. Len(col) : col[i] < goal) => lb = Len(rows)

\* lower_bound<1> has bracketed two equal values between a smaller and a
\* greater one.
C26_Witness ==
    /\ op = "lower_bound"
    /\ ret = [K |-> 1, goal |-> 1, index |-> 1]
    /\ Column(rows, 1) = << 0, 1, 1, 2 >>
    /\ upper_bound(rows, 1, 1) = 3

\* ------------------------------------------------------------------- sort
\* The for loop of partition at (i, j) and its closing swap: the pivot is
\* read through the pointer &arr[high]; numswaps is incremented after every
\* swap_entries call, and `calls` lists those calls.
RECURSIVE PartitionLoop(_, _, _, _, _, _, _)
PartitionLoop(rws, K, high, i, j, numswaps, calls) ==
    IF j < high
    THEN IF Column(rws, K)[j + 1] < Column(rws, K)[high + 1]
         THEN PartitionLoop(soa_swap_entries(rws, i, j), K, high, i + 1, j + 1,
                            numswaps + 1, Append(calls, << i, j >>))
         ELSE PartitionLoop(rws, K, high, i, j + 1, numswaps, calls)
    ELSE [rows |-> soa_swap_entries(rws, i, high), p |-> i,
          numswaps |-> numswaps + 1, calls |-> Append(calls, << i, high >>)]

\* partition(arr, low, high, numswaps)
partition(rws, K, low, high, numswaps, calls) ==
    PartitionLoop(rws, K, high, low, low, numswaps, calls)

\* stack[++top] = a; stack[++top] = b; st is "ub" when a write lands outside
\* the stack.
Push(stack, top, a, b) ==
    IF top + 2 >= Len(stack)
    THEN [stack |-> stack, top |-> top + 2, st |-> "ub"]
    ELSE [stack |-> [stack EXCEPT ![top + 2] = a, ![top + 3] = b],
          top |-> top + 2, st |-> "ok"]

\* The while (top >= 0) loop of quicksort; `fuel` bounds its passes.
RECURSIVE QuicksortLoop(_, _, _, _, _, _, _)
QuicksortLoop(rws, K, stack, top, numswaps, calls, fuel) ==
    IF top < 0
    THEN [rows |-> rws, ret |-> numswaps, st |-> "ok", calls |-> calls]
    ELSE IF fuel = 0
    THEN [rows |-> rws, ret |-> numswaps, st |-> "hang", calls |-> calls]
    ELSE LET h == stack[top + 1]
             l == stack[top]
             pr == partition(rws, K, l, h, numswaps, calls)
             p == pr.p
             s1 == IF p > l + 1 THEN Push(stack, top - 2, l, p - 1)
                   ELSE [stack |-> stack, top |-> top - 2, st |-> "ok"]
             s2 == IF s1.st = "ok" /\ p + 1 < h THEN Push(s1.stack, s1.top, p + 1, h)
                   ELSE s1
         IN  IF s2.st # "ok"
             THEN [rows |-> pr.rows, ret |-> pr.numswaps, st |-> "ub",
                   calls |-> pr.calls]
             ELSE QuicksortLoop(pr.rows, K, s2.stack, s2.top, pr.numswaps,
                                pr.calls, fuel - 1)

\* (high - low) + 2 in size_t arithmetic, the length of quicksort's stack.
StackLen(low, high) ==
    IF high - low = SIZE_MAX THEN 1
    ELSE IF high - low = SIZE_MAX - 1 THEN 0
    ELSE (high - low) + 2

\* quicksort(arr, low, high)
quicksort(rws, K, low, high) ==
    LET stack == [i \in 1 .. StackLen(low, high) |-> 0]
        s == Push(stack, 0 - 1, low, high)
    IN  IF s.st # "ok"
        THEN [rows |-> rws, ret |-> 0, st |-> "ub", calls |-> << >>]
        ELSE QuicksortLoop(rws, K, s.stack, s.top, 0, << >>, Len(rws) + 1)

\* sort<K>(): quicksort(data<K>(), 0, mysize - 1), mysize - 1 in size_t
\* arithmetic.  With size above capacity arr[high] lies past the column.
soa_sort(t, K) ==
    LET high == IF mysize(t) = 0 THEN SIZE_MAX ELSE mysize(t) - 1
        q == quicksort(t.rows, K, 0, high)
    IN  IF Overfull(t) THEN Outcome(t, 0, "ub")
        ELSE Outcome([t EXCEPT !.rows = q.rows], q.ret, q.st)

\* The rows of a sort run.
SortRowVals == [key : 0 .. SortMaxVal, item : 0 .. SortMaxVal]

\* The capacities of a sort run.
SortCaps == { c \in 0 .. RoundUp(SortRows) : c % Quantum = 0 }

\* A container of up to SortRows rows: with a capacity that holds them it is
\* what reserve and push_back build; with a smaller capacity it is what
\* deserialize leaves when its allocation fails.
InitSort ==
    /\ \E n \in 0 .. SortRows : rows \in [1 .. n -> SortRowVals]
    /\ mycapacity \in SortCaps
    /\ mydata = IF mycapacity = 0 THEN nullify
                ELSE divy_buffer_mydata(0, mycapacity)
    /\ hashcapacity = 0
    /\ hashmap = NullMap
    /\ hashcursor = SIZE_MAX
    /\ hashfn = [k \in 0 .. (NumKeys - 1) |-> 0]
    /\ op = "init"
    /\ ret = 0
    /\ status = "ok"
    /\ lastFind = "none"

\* One sort<K> call on the container.
Sort ==
    /\ status = "ok"
    /\ op = "init"
    /\ \E K \in 0 .. 1 : Apply(soa_sort(Tbl, K), "sort", "none")

SpecSort == InitSort /\ [][Sort]_vars

\* The rows after the swap_entries calls of `calls` were made in turn.
RECURSIVE AfterCalls(_, _)
AfterCalls(rws, calls) ==
    IF calls = << >> THEN rws
    ELSE AfterCalls(soa_swap_entries(rws, Head(calls)[1], Head(calls)[2]),
                    Tail(calls))

\* sort<K> on the container does what C27 says.
SortCorrect(K) ==
    LET o == soa_sort(Tbl, K)
        q == quicksort(rows, K, 0, Len(rows) - 1)
    IN  /\ o.st = "ok"
        /\ Ascending(Column(o.t.rows, K))
        /\ Len(o.t.rows) = Len(rows)
        /\ \A r \in SortRowVals : RowCount(o.t.rows, r) = RowCount(rows, r)
        /\ o.t.rows = AfterCalls(rows, q.calls)
        /\ o.ret = Len(q.calls)
        /\ o.t.mycapacity = mycapacity

\* C27: for any non-empty soa, sort<K> terminates, leaves column K in
\* non-decreasing order, keeps the multiset of whole rows (the values of a
\* row stay together), and returns the number of swap_entries calls it made,
\* self-swaps included.
C27_SortCorrect ==
    (op = "init" /\ Len(rows) > 0) => \A K \in 0 .. 1 : SortCorrect(K)

\* C27 for the containers whose size does not exceed the capacity.
C27_SortCorrectWhenFits ==
    (op = "init" /\ Len(rows) > 0 /\ ~Overfull(Tbl)) =>
        \A K \in 0 .. 1 : SortCorrect(K)

\* `after` has n rows: the rows `before` had below index n keep their index
\* and values, and the rows from the old size on equal newrow.
ResizedTo(before, after, n, newrow) ==
    /\ Len(after) = n
    /\ \A i \in 1 .. n : i <= Len(before) => after[i] = before[i]
    /\ \A i \in 1 .. n : i > Len(before) => after[i] = newrow

\* resize(n) returns, and when it returns true the container is resized.
ResizeDefaultSetsSize(n, allocOk) ==
    LET o == soa_resize(Tbl, n, allocOk)
    IN  /\ o.st = "ok"
        /\ o.ret = TRUE => ResizedTo(rows, o.t.rows, n, DefaultRow)

\* resize(n, fill values) returns, and when it returns true the container is
\* resized.
ResizeFillSetsSize(n, fill, allocOk) ==
    LET o == soa_resize_fill(Tbl, n, fill, allocOk)
    IN  /\ o.st = "ok"
        /\ o.ret = TRUE => ResizedTo(rows, o.t.rows, n, fill)

\* C28: both resize(n) and resize(n, fill values) leave size() = n when they
\* return true: for n > size the rows [old size, n) are default-constructed
\* (or copies of the fill values) and the rows [0, old size) unchanged; for
\* n < size the rows [0, n) are unchanged.
C28_ResizeSetsSize ==
    status = "ok" =>
        \A n \in 0 .. SoaMaxN, fill \in SoaRowVals, allocOk \in BOOLEAN :
            /\ ResizeDefaultSetsSize(n, allocOk)
            /\ ResizeFillSetsSize(n, fill, allocOk)

\* C28 for resize(n) alone, in the states whose size does not exceed the
\* capacity.
C28_ResizeDefaultSetsSize ==
    (status = "ok" /\ ~Overfull(Tbl)) =>
        \A n \in 0 .. SoaMaxN, allocOk \in BOOLEAN : ResizeDefaultSetsSize(n, allocOk)

\* C28 for resize(n, fill values) with n at most size, in the states whose
\* size does not exceed the capacity.
C28_ResizeFillShrinks ==
    (status = "ok" /\ ~Overfull(Tbl)) =>
        \A n \in 0 .. Len(rows), fill \in SoaRowVals, allocOk \in BOOLEAN :
            ResizeFillSetsSize(n, fill, allocOk)

\* shrink_to_fit with its allocation succeeding does what C29 says.
ShrinkToFitCorrect ==
    LET o == soa_shrink_to_fit(Tbl, TRUE)
    IN  /\ o.st = "ok"
        /\ o.ret = TRUE
        /\ o.t.mycapacity = RoundUp(Len(rows))
        /\ o.t.rows = rows
        /\ Len(rows) = 0 => (o.t.mycapacity = 0 /\ o.t.mydata = nullify)

\* C29: soa shrink_to_fit with the allocation succeeding sets capacity to
\* size rounded up to a multiple of the quantum and keeps size and every row;
\* with size 0 (after clear, which keeps the capacity) capacity becomes 0 and
\* every column pointer null.
C29_ShrinkToFitCorrect == status = "ok" => ShrinkToFitCorrect

\* C29 in the states whose size does not exceed the capacity.
C29_ShrinkToFitWhenFits == (status = "ok" /\ ~Overfull(Tbl)) => ShrinkToFitCorrect

\* clear() keeps the capacity.
C29_ClearKeepsCapacity ==
    (status = "ok" /\ ~Overfull(Tbl)) =>
        soa_clear(Tbl) = Outcome([Tbl EXCEPT !.rows = << >>], 0, "ok")

\* ------------------------------------------------------------- round trip
\* What a cell of a block holds where no row value was stored.
Junk == 0 - 2

\* The elements a block of the capacity holds: size_per_entry() * capacity
\* bytes.
BlockCells(t) == (size_per_entry * t.mycapacity) \div sizeof_FT

\* The cell of the block where element i of column K lies.
CellOf(t, K, i) == (t.mydata[K + 1] \div sizeof_FT) + i

\* The block that serialize returns a pointer to, cell by cell: each column
\* at its pointer, the rows' values in its first size cells.
Block(t) ==
    [c \in 0 .. (BlockCells(t) - 1) |->
        IF \E i \in 0 .. (mysize(t) - 1) : c = CellOf(t, 0, i)
        THEN t.rows[(c - CellOf(t, 0, 0)) + 1].key
        ELSE IF \E i \in 0 .. (mysize(t) - 1) : c = CellOf(t, 1, i)
        THEN t.rows[(c - CellOf(t, 1, 0)) + 1].item
        ELSE Junk]

\* The rows a container of n rows reads out of its block `cells`; a row
\* whose cell lies outside the block reads Junk.
RowsOfBlock(t, n, cells) ==
    [i \in 1 .. n |->
        [key  |-> IF CellOf(t, 0, i - 1) \in DOMAIN cells
                  THEN cells[CellOf(t, 0, i - 1)] ELSE Junk,
         item |-> IF CellOf(t, 1, i - 1) \in DOMAIN cells
                  THEN cells[CellOf(t, 1, i - 1)] ELSE Junk]]

\* serialize on t, deserialize(size) on a fresh container, and the caller's
\* copy of serialize's num_bytes bytes into deserialize's buffer: the
\* container that results.  The copy is undefined when the buffer is null or
\* shorter than num_bytes.
RoundTrip(t, allocSer, allocDes) ==
    LET s == soa_serialize(t, allocSer)
        n == mysize(t)
        g == soa_reserve(EmptyTable, n, allocDes)
        copied == s.ret \div sizeof_FT
        cells == [c \in 0 .. (BlockCells(g.t) - 1) |->
                     IF c < copied THEN Block(s.t)[c] ELSE Junk]
    IN  IF s.st # "ok" THEN Outcome(s.t, 0, s.st)
        ELSE IF copied > 0 /\ (g.t.mydata[1] = nullptr \/ copied > BlockCells(g.t))
             THEN Outcome(g.t, 0, "ub")
        ELSE soa_deserialize(EmptyTable, n, RowsOfBlock(g.t, n, cells), allocDes)

\* The round trip of the container returns one with the same rows.
RoundTripSame(allocSer, allocDes) ==
    LET o == RoundTrip(Tbl, allocSer, allocDes)
    IN  /\ o.st = "ok"
        /\ o.t.rows = rows

\* C30: for a soa with any number n of rows, copying the num_bytes bytes
\* returned by serialize into the buffer returned by deserialize(n) on a
\* fresh soa yields a container with size n whose every column holds the
\* same values at the same indices.
C30_RoundTrip ==
    status = "ok" =>
        \A allocSer \in BOOLEAN, allocDes \in BOOLEAN : RoundTripSame(allocSer, allocDes)

\* C30 with both allocations succeeding, in the states whose size does not
\* exceed the capacity.
C30_RoundTripWhenAllocated ==
    (status = "ok" /\ ~Overfull(Tbl)) => RoundTripSame(TRUE, TRUE)

\* ----------------------------------------------- the table's round trip
\* htable::serialize(num_bytes): shrink_to_fit, its result ignored; the value
\* returned here is num_bytes, size_per_entry() * mycapacity +
\* sizeof(uint32_t) * hashcapacity.
serialize(t, allocOk) ==
    LET s == shrink_to_fit(t, allocOk)
    IN  Outcome(s.t, (size_per_entry * s.t.mycapacity) + (4 * s.t.hashcapacity),
                s.st)

\* The elements of the table's block: the htable_size bytes of the slot
\* array (hashcapacity + 1 slots), then size_per_entry() * capacity bytes of
\* columns.
HtBlockCells(t) ==
    IF t.mycapacity = 0 THEN 0
    ELSE (htable_size(t.mycapacity) + (size_per_entry * t.mycapacity)) \div sizeof_FT

\* The block that serialize returns a pointer to, cell by cell: the slot
\* array first, each column at its pointer.
HtBlock(t) ==
    [c \in 0 .. (HtBlockCells(t) - 1) |->
        IF c \in DOMAIN t.hashmap THEN t.hashmap[c]
        ELSE IF \E i \in 0 .. (mysize(t) - 1) : c = CellOf(t, 0, i)
        THEN t.rows[(c - CellOf(t, 0, 0)) + 1].key
        ELSE IF \E i \in 0 .. (mysize(t) - 1) : c = CellOf(t, 1, i)
        THEN t.rows[(c - CellOf(t, 1, 0)) + 1].item
        ELSE Junk]

\* htable::deserialize(n, num_bytes): reserve(n), its result ignored, then
\* mysize = n.  `cells` is what the buffer holds once the caller has filled
\* it: the table's slots and rows are read from there.  The value returned
\* here is num_bytes.
deserialize(t, n, cells, allocOk) ==
    LET g == reserve(t, n, allocOk)
    IN  IF g.st # "ok" THEN g
        ELSE Outcome([g.t EXCEPT !.rows = RowsOfBlock(g.t, n, cells),
                                 !.hashmap = [h \in DOMAIN g.t.hashmap |->
                                                IF h \in DOMAIN cells THEN cells[h]
                                                ELSE g.t.hashmap[h]]],
                     (size_per_entry * g.t.mycapacity) + (4 * g.t.hashcapacity),
                     "ok")

\* serialize on t, deserialize(size) on a fresh table, and the caller's copy
\* of serialize's num_bytes bytes into deserialize's buffer: the table that
\* results.  The copy is undefined when it reads past the source block, or
\* when the buffer is null or shorter than num_bytes.
HtRoundTrip(t, allocSer, allocDes) ==
    LET s == serialize(t, allocSer)
        n == mysize(t)
        g == reserve(EmptyTable, n, allocDes)
        copied == s.ret \div sizeof_FT
        cells == [c \in 0 .. (HtBlockCells(g.t) - 1) |->
                     IF c < copied THEN HtBlock(s.t)[c] ELSE HtBlock(g.t)[c]]
    IN  IF s.st # "ok" THEN Outcome(s.t, 0, s.st)
        ELSE IF g.st # "ok" THEN Outcome(g.t, 0, g.st)
        ELSE IF copied > HtBlockCells(s.t) THEN Outcome(s.t, 0, "ub")
        ELSE IF copied > 0 /\ (g.t.mycapacity = 0 \/ copied > HtBlockCells(g.t))
             THEN Outcome(g.t, 0, "ub")
        ELSE deserialize(EmptyTable, n, cells, allocDes)

Serialize ==
    /\ status = "ok"
    /\ Apply(serialize(Tbl, TRUE), "serialize", "none")

\* A fresh table loaded from this one: from here on the run follows the copy.
Deserialize ==
    /\ status = "ok"
    /\ Apply(HtRoundTrip(Tbl, TRUE, TRUE), "deserialize", "none")

\* Tables built by insert and erase, saved and loaded, every allocation
\* succeeding.
NextSer ==
    \/ Insert
    \/ Erase
    \/ Serialize
    \/ Deserialize

SpecSer == Init /\ [][NextSer]_vars

\* The round trip of the table returns one with the rows and the find
\* results of the table that was serialized.
HtRoundTripSame(allocSer, allocDes) ==
    LET s == serialize(Tbl, allocSer)
        o == HtRoundTrip(Tbl, allocSer, allocDes)
    IN  /\ o.st = "ok"
        /\ o.t.rows = s.t.rows
        /\ \A key \in Keys :
              LET f == find(o.t, key, TRUE)
                  e == find(s.t, key, TRUE)
              IN  f.st = e.st /\ f.ret = e.ret

\* C31: for an htable with any number n of rows, n a multiple of the quantum
\* included, copying the num_bytes bytes returned by serialize into the
\* buffer returned by deserialize(n) on a fresh htable reproduces every
\* row's values and the same find results.
C31_RoundTrip ==
    status = "ok" =>
        \A allocSer \in BOOLEAN, allocDes \in BOOLEAN :
            HtRoundTripSame(allocSer, allocDes)

\* C31 with both allocations succeeding, for a size that is not a multiple
\* of the quantum.
C31_RoundTripWhenPartial ==
    (status = "ok" /\ Len(rows) % Quantum # 0) => HtRoundTripSame(TRUE, TRUE)

\* With both allocations succeeding and a size that is a positive multiple
\* of the quantum, num_bytes ends one slot's width before the end of the
\* last column: the copy has the last row's item missing and nothing else.
C31_RoundTripDropsLastItem ==
    (status = "ok" /\ Len(rows) > 0 /\ Len(rows) % Quantum = 0) =>
        LET s == serialize(Tbl, TRUE)
            o == HtRoundTrip(Tbl, TRUE, TRUE)
            n == Len(rows)
        IN  /\ o.st = "ok"
            /\ Len(o.t.rows) = n
            /\ \A i \in 1 .. n : o.t.rows[i].key = s.t.rows[i].key
            /\ \A i \in 1 .. (n - 1) : o.t.rows[i].item = s.t.rows[i].item
            /\ o.t.rows[n].item = Junk
            /\ o.t.hashmap = s.t.hashmap

\* ------------------------------------------------------- sorted inserts
\* The largest item a sorted insert stores.
SortedMaxItem == 1

\* insert_sorted<K>(key, item).  No return statement follows rehash(): control
\* flows off the end of a function returning bool, which is undefined.
\* `garbage` is the value a build that returns to the caller hands back, and
\* `trap` says whether the build treats the end of the function as
\* unreachable.
insert_sorted(t, K, key, item, allocOk, garbage, trap) ==
    IF mysize(t) = max_size THEN Outcome(t, FALSE, "ok")
    ELSE LET g == IF mysize(t) = t.mycapacity
                  THEN reserve(t, t.mycapacity * 2, allocOk)
                  ELSE Outcome(t, TRUE, "ok")
             where == lower_bound(g.t.rows, K, IF K = 0 THEN key ELSE item)
             ins == soa_insert(g.t, where, [key |-> key, item |-> item], allocOk)
             r == rehash(ins.t)
         IN  IF g.st # "ok" THEN g
             ELSE IF ~g.ret THEN Outcome(g.t, FALSE, "ok")
             ELSE IF ins.st # "ok" THEN ins
             ELSE IF r.st # "ok" THEN r
             ELSE IF trap THEN Outcome(r.t, garbage, "ub")
             ELSE Outcome(r.t, garbage, "ok")

InsertSorted ==
    /\ status = "ok"
    /\ Len(rows) < MaxRows
    /\ \E K \in 0 .. 1, key \in Keys, item \in 0 .. SortedMaxItem,
          garbage \in BOOLEAN, trap \in BOOLEAN :
          Apply(insert_sorted(Tbl, K, key, item, TRUE, garbage, trap),
                "insert_sorted", "none")

\* Tables kept by insert_sorted, with find and the swapping erase, every
\* allocation succeeding.
NextSorted ==
    \/ InsertSorted
    \/ Find
    \/ Erase

SpecSorted == Init /\ [][NextSorted]_vars

\* What insert_sorted<K>(key, item) leaves: one more row, column K still
\* ascending, the earlier rows in their order, every row found on its key.
InsertSortedState(o, K, key, item) ==
    /\ Len(o.t.rows) = Len(rows) + 1
    /\ Ascending(Column(o.t.rows, K))
    /\ \E at \in 0 .. Len(rows) :
          InsertedAt(rows, o.t.rows, at, [key |-> key, item |-> item])
    /\ \A i \in 0 .. (Len(o.t.rows) - 1) : Findable(o.t, i)

\* C32: insert_sorted<K>(key, items) on a table whose column K is sorted
\* ascending returns true when the allocation succeeds, adds exactly one row
\* so that column K is still ascending with the earlier rows in their
\* previous order, and leaves every row returned by find on its key.
C32_InsertSorted ==
    status = "ok" =>
        \A K \in 0 .. 1, key \in Keys, item \in 0 .. SortedMaxItem :
            (Ascending(Column(rows, K)) /\ Len(rows) < MaxRows) =>
                \A garbage \in BOOLEAN, trap \in BOOLEAN :
                    LET o == insert_sorted(Tbl, K, key, item, TRUE, garbage, trap)
                    IN  /\ o.st = "ok"
                        /\ o.ret = TRUE
                        /\ InsertSortedState(o, K, key, item)

\* C32 without the returned value, in a build that returns to the caller:
\* the table is as the claim says.
C32_InsertSortedTable ==
    status = "ok" =>
        \A K \in 0 .. 1, key \in Keys, item \in 0 .. SortedMaxItem :
            (Ascending(Column(rows, K)) /\ Len(rows) < MaxRows) =>
                \A garbage \in BOOLEAN :
                    LET o == insert_sorted(Tbl, K, key, item, TRUE, garbage, FALSE)
                    IN  o.st = "ok" /\ InsertSortedState(o, K, key, item)

\* ------------------------------------------- the slots erase_shift touches
\* _soa_base::erase_shift(location), per column: the destructor runs on slot
\* `location`, and memmove(mydata + location, mydata + (location + 1),
\* sizeof(FT) * (mysize - location)) moves mysize - location elements.
\* The number of elements the memmove moves.
erase_shift_count(t, location) == mysize(t) - location

\* The slot indices the memmove reads: mysize - location slots from
\* location + 1 on.
erase_shift_reads(t, location) ==
    (location + 1) .. (location + erase_shift_count(t, location))

\* The slot indices the destructor and the memmove write: slot location, and
\* mysize - location slots from location on.
erase_shift_writes(t, location) ==
    { location } \cup (location .. ((location + erase_shift_count(t, location)) - 1))

\* C33: soa erase_shift(at) reads and writes only row slots with index in
\* [at, size) of each column, size taken before the call: it never reads or
\* writes slot index size, also when size equals capacity.
C33_EraseShiftInRange ==
    (status = "ok" /\ ~Overfull(Tbl)) =>
        \A at \in 0 .. (Len(rows) - 1) :
            /\ erase_shift_reads(Tbl, at) \subseteq at .. (Len(rows) - 1)
            /\ erase_shift_writes(Tbl, at) \subseteq at .. (Len(rows) - 1)

\* What holds instead: the writes stay in [at, size), and the reads are the
\* slots (at, size], slot index size included.
C33_EraseShiftReadsSlotSize ==
    (status = "ok" /\ ~Overfull(Tbl)) =>
        \A at \in 0 .. (Len(rows) - 1) :
            /\ erase_shift_writes(Tbl, at) = at .. (Len(rows) - 1)
            /\ erase_shift_reads(Tbl, at) = (at + 1) .. Len(rows)

\* With size below capacity the slot read at index size lies inside the
\* column's sub-array; with size equal to capacity it does not, and the call
\* may fault.
C33_EraseShiftReadsInColumn ==
    (status = "ok" /\ ~Overfull(Tbl)) =>
        \A at \in 0 .. (Len(rows) - 1) :
            /\ (Len(rows) < mycapacity) =>
                  /\ erase_shift_reads(Tbl, at) \subseteq 0 .. (mycapacity - 1)
                  /\ soa_erase_shift(Tbl, at, TRUE).st = "ok"
            /\ (Len(rows) = mycapacity) =>
                  /\ mycapacity \in erase_shift_reads(Tbl, at)
                  /\ soa_erase_shift(Tbl, at, TRUE).st = "ub"

\* --------------------------------------------- the ranges quicksort sorts
\* The while (top >= 0) loop of quicksort again, for the arguments of its
\* partition calls: the (l, h) pairs popped, in the order of the calls.
RECURSIVE PartitionArgs(_, _, _, _, _)
PartitionArgs(rws, K, stack, top, fuel) ==
    IF top < 0 \/ fuel = 0 THEN << >>
    ELSE LET h == stack[top + 1]
             l == stack[top]
             pr == partition(rws, K, l, h, 0, << >>)
             p == pr.p
             s1 == IF p > l + 1 THEN Push(stack, top - 2, l, p - 1)
                   ELSE [stack |-> stack, top |-> top - 2, st |-> "ok"]
             s2 == IF s1.st = "ok" /\ p + 1 < h THEN Push(s1.stack, s1.top, p + 1, h)
                   ELSE s1
         IN  IF s2.st # "ok" THEN << << l, h >> >>
             ELSE << << l, h >> >> \o PartitionArgs(pr.rows, K, s2.stack, s2.top,
                                                    fuel - 1)

\* The partition calls of sort<K>() on a non-empty container.
sort_partitions(t, K) ==
    LET high == mysize(t) - 1
        stack == [i \in 1 .. StackLen(0, high) |-> 0]
        s == Push(stack, 0 - 1, 0, high)
    IN  PartitionArgs(t.rows, K, s.stack, s.top, mysize(t) + 1)

\* sort<K> on the container is safe: no write outside quicksort's stack and
\* the loop ends (the call's status is "ok"), every partition call has
\* low <= high < size, and an empty container is left as it was with no
\* swap made.
SortSafe(K) ==
    LET o == soa_sort(Tbl, K)
    IN  /\ o.st = "ok"
        /\ IF Len(rows) = 0 THEN o.ret = 0 /\ o.t = Tbl
           ELSE \A c \in 1 .. Len(sort_partitions(Tbl, K)) :
                   LET a == sort_partitions(Tbl, K)[c]
                   IN  a[1] <= a[2] /\ a[2] < Len(rows)

\* C34: during sort<K> on a container of any size, size 0 and size 1
\* included, every write to quicksort's explicit stack is at an index smaller
\* than the stack's length (high - low + 2), every partition call has
\* low <= high < size, and the sort terminates; on an empty container it
\* makes no swap and changes nothing.
C34_SortSafe ==
    (op = "init" /\ ~Overfull(Tbl)) => \A K \in 0 .. 1 : SortSafe(K)

\* C34 for the non-empty containers, size 1 included.
C34_SortSafeNonEmpty ==
    (op = "init" /\ ~Overfull(Tbl) /\ Len(rows) > 0) => \A K \in 0 .. 1 : SortSafe(K)

\* On an empty container high is SIZE_MAX, the stack has one element, and the
\* write of high to stack[1] is outside it.
C34_SortEmptyOverruns ==
    (op = "init" /\ Len(rows) = 0) =>
        /\ StackLen(0, SIZE_MAX) = 1
        /\ \A K \in 0 .. 1 : soa_sort(Tbl, K).st = "ub"

\* -------------------------------------------- the key erase_found reads
\* erase_found() erases the row under the cursor when the cursor is on an
\* occupied slot.
erase_found_erases(t) ==
    /\ t.hashcursor < t.hashcapacity
    /\ InMap(t, t.hashcursor)
    /\ Occupied(t.hashmap[t.hashcursor])

\* The row index whose key erase_found reads for the repair,
\* at<0>(index): index is the slot's value, read before erase_swap.
erase_found_read(t) == t.hashmap[t.hashcursor]

\* The size at that read: erase_swap has removed a row.
erase_found_size(t) == mysize(t) - 1

\* C35: erase_found never reads the key of a row index >= the current size:
\* when the found row is the last row, the slot-repair step does not read
\* the row that was just destructed, and it modifies no slot other than the
\* one set to INDEXDEL.
C35_EraseFoundReadsLive ==
    (status = "ok" /\ erase_found_erases(Tbl) /\ erase_found_read(Tbl) < Len(rows)) =>
        /\ erase_found_read(Tbl) < erase_found_size(Tbl)
        /\ (erase_found_read(Tbl) = Len(rows) - 1) =>
              \A stale \in Keys :
                  LET o == erase_found(Tbl, stale)
                  IN  /\ o.st = "ok"
                      /\ \A h \in DOMAIN hashmap :
                            h # hashcursor => o.t.hashmap[h] = hashmap[h]

\* When the found row is not the last one, the key read is that of the row
\* moved into its place, a live row.
C35_EraseFoundReadsMovedRow ==
    (status = "ok" /\ erase_found_erases(Tbl)
       /\ erase_found_read(Tbl) < Len(rows) - 1) =>
        erase_found_read(Tbl) < erase_found_size(Tbl)

\* When the found row is the last one, the key read is that of row index
\* size, the destructed row; whatever key the read yields, no slot but the
\* tombstone changes.
C35_EraseFoundLastReadsDead ==
    (status = "ok" /\ erase_found_erases(Tbl)
       /\ erase_found_read(Tbl) = Len(rows) - 1) =>
        /\ erase_found_read(Tbl) = erase_found_size(Tbl)
        /\ \A stale \in Keys :
              LET o == erase_found(Tbl, stale)
              IN  /\ o.st = "ok"
                  /\ o.t.hashmap = [hashmap EXCEPT ![hashcursor] = INDEXDEL]

\* ------------------------------------------------ the two byte counts
\* serialize on the container and deserialize(size) on a fresh one report
\* the same num_bytes.
SameNumBytes(allocSer, allocDes) ==
    LET s == soa_serialize(Tbl, allocSer)
        d == soa_deserialize(EmptyTable, Len(rows), rows, allocDes)
    IN  s.st = "ok" /\ d.st = "ok" /\ s.ret = d.ret

\* C36: for every row count n >= 0, n == 0 included, the num_bytes reported
\* by soa serialize on a container holding n rows equals the num_bytes
\* reported by deserialize(n) on a fresh soa of the same column types.
C36_SameNumBytes ==
    (status = "ok" /\ ~Overfull(Tbl)) =>
        \A allocSer \in BOOLEAN, allocDes \in BOOLEAN :
            SameNumBytes(allocSer, allocDes)

\* C36 for the non-empty containers, both allocations succeeding.
C36_SameNumBytesNonEmpty ==
    (status = "ok" /\ ~Overfull(Tbl) /\ Len(rows) > 0) => SameNumBytes(TRUE, TRUE)

\* For an empty container serialize reports 0 bytes and deserialize(0) the
\* bytes of one quantum of rows.
C36_EmptyNumBytes ==
    (status = "ok" /\ Len(rows) = 0) =>
        /\ soa_serialize(Tbl, TRUE).ret = 0
        /\ soa_deserialize(EmptyTable, 0, << >>, TRUE).ret = size_per_entry * Quantum

\* ------------------------------------------------ insert's probe loop
\* The table after the growth check of insert: reserve(mycapacity * 2) when
\* size equals capacity, the allocation succeeding.
AfterGrowthCheck(t) ==
    IF mysize(t) = t.mycapacity THEN reserve(t, t.mycapacity * 2, TRUE).t ELSE t

\* The probe loop of insert(key, ...) ends within hashcapacity steps: the
\* slots that hold a row index are as many as the rows, fewer than the
\* capacity and so fewer than the slots, and the call returns true with the
\* row appended (InsertLoop reports "hang" after hashcapacity steps with no
\* INDEXNUL or INDEXDEL slot met).
InsertProbeTerminates(key, item) ==
    LET g == AfterGrowthCheck(Tbl)
        o == insert(Tbl, key, item, TRUE)
    IN  /\ OccupiedSlots(g) = mysize(g)
        /\ mysize(g) < g.mycapacity
        /\ g.mycapacity < g.hashcapacity
        /\ MapLen(g) = g.hashcapacity
        /\ o.st = "ok"
        /\ o.ret = TRUE
        /\ Len(o.t.rows) = Len(rows) + 1

\* C37: in every reachable state of the htable with allocation succeeding,
\* the probe loop of insert terminates: starting from hash(key) mod
\* hashcapacity it meets an INDEXNUL or INDEXDEL slot within hashcapacity
\* steps, because after the growth check the number of occupied slots equals
\* size, which is below capacity and hence below hashcapacity.
C37_InsertProbeTerminates ==
    status = "ok" =>
        \A key \in Keys, item \in Items : InsertProbeTerminates(key, item)

\* C37 witness: an insert has just returned true in a table that has grown
\* to the second capacity and has a tombstone in its slot array; its probe
\* walked past the start slot of the new row's key, which a row holds.
C37_Witness ==
    /\ op = "insert"
    /\ ret = TRUE
    /\ status = "ok"
    /\ Len(rows) = Quantum + 1
    /\ mycapacity = 2 * Quantum
    /\ HasTombstone(Tbl)
    /\ OccupiedSlots(Tbl) = Len(rows)
    /\ hashmap[Hash(rows[Len(rows)].key) % hashcapacity] # Len(rows) - 1

\* ---------------------------------------------------------------- emplace
\* _soa_base::emplace(location, first, rest...) on the first column, then
\* base.emplace_back(location, rest...) on the columns behind it: column 0
\* moves its rows from `location` on one index up and constructs `first` at
\* `location`; column 1 is given `location` as its constructor argument and
\* constructs it at index mysize, its rows unmoved.
base_emplace(rws, location, first) ==
    [i \in 1 .. (Len(rws) + 1) |->
        [key  |-> IF i <= location THEN rws[i].key
                  ELSE IF i = location + 1 THEN first
                  ELSE rws[i - 1].key,
         item |-> IF i <= Len(rws) THEN rws[i].item ELSE location]]

\* soa::emplace(where, args...) on soa<int, int>.  Each column hands
\* `location` and the remaining arguments on, so with an argument for every
\* column the last one reaches _soa_base<>::emplace_back(), which takes
\* none: the call does not compile ("ill-formed").  With one argument it
\* compiles, and the growth check comes before the bounds check.
soa_emplace(t, where, args, allocOk) ==
    IF Len(args) > 1 THEN Outcome(t, FALSE, "ill-formed")
    ELSE LET g == GrowIf(t, mysize(t) = t.mycapacity, t.mycapacity * 2, allocOk)
         IN  IF g.st # "ok" THEN g
             ELSE IF ~g.ret THEN Outcome(g.t, FALSE, "ok")
             ELSE IF where > mysize(g.t) THEN Outcome(g.t, FALSE, "ok")
             ELSE IF mysize(g.t) >= g.t.mycapacity THEN Outcome(g.t, TRUE, "ub")
             ELSE Outcome([g.t EXCEPT !.rows = base_emplace(g.t.rows, where, args[1])],
                          TRUE, "ok")

\* The emplace calls that compile.
SoaEmplace ==
    /\ status = "ok"
    /\ Len(rows) < SoaRows
    /\ \E where \in 0 .. (Len(rows) + 1), first \in 0 .. SoaMaxVal,
          allocOk \in BOOLEAN :
          Apply(soa_emplace(Tbl, where, << first >>, allocOk), "emplace", "none")

\* Containers built by push_back, insert and emplace.
NextEmplace ==
    \/ SoaPushBack
    \/ SoaInsert
    \/ SoaEmplace
    \/ SoaPopBack

SpecEmplace == InitSoa /\ [][NextEmplace]_vars

\* C38: soa emplace(at, values) with at <= size produces the same resulting
\* container state as insert(at, values) built from the same values: size
\* increases by 1, in every column the rows [at, size) are shifted forward by
\* one, and the new value of every column is constructed at index at.
C38_EmplaceAsInsert ==
    status = "ok" =>
        \A at \in 0 .. Len(rows), row \in SoaRowVals :
            LET e == soa_emplace(Tbl, at, << row.key, row.item >>, TRUE)
                i == soa_insert(Tbl, at, row, TRUE)
            IN  /\ e.st = "ok"
                /\ i.st = "ok"
                /\ e.ret = i.ret
                /\ e.t.rows = i.t.rows
                /\ e.t.mycapacity = i.t.mycapacity
                /\ InsertedAt(rows, e.t.rows, at, row)

\* The emplace call that compiles, with the first column's value only:
\* size, capacity and column 0 are as after insert, while column 1 keeps its
\* rows where they were and holds `at` at the old size.
C38_EmplaceFirstColumn ==
    status = "ok" =>
        \A at \in 0 .. Len(rows), row \in SoaRowVals :
            LET e == soa_emplace(Tbl, at, << row.key >>, TRUE)
                i == soa_insert(Tbl, at, row, TRUE)
            IN  /\ e.st = "ok"
                /\ e.ret = TRUE
                /\ e.t.mycapacity = i.t.mycapacity
                /\ Column(e.t.rows, 0) = Column(i.t.rows, 0)
                /\ Column(e.t.rows, 1) = Column(rows, 1) \o << at >>

====
